---- MODULE Spec2Model ----
(***************************************************************************)
(* Model of the transform stage of the e-commerce ETL pipeline             *)
(* (src/src/transform.py).  A Dataset Table is a record                    *)
(*     [dtype |-> [column name -> dtype], rows |-> sequence of rows]       *)
(* where a row is a function from the column names to cells.  A cell is    *)
(* the empty tuple NA ("no value": NaN, NaT, <NA>, None) or a one-element  *)
(* tuple <<v>> holding the value.  Prices are whole numbers of cents and   *)
(* a date-time is a whole number of half days since 2023-01-01 00:00.      *)
(***************************************************************************)
EXTENDS Integers, Sequences, FiniteSets, TLC

VARIABLES
    input,        \* the raw mapping the caller built, as it was before the first call
    datasets,     \* the caller's mapping object, which transform_all writes into
    transformed,  \* the local result mapping of the running transform_all call
    pc,           \* position inside transform_all
    err,          \* the exception that left transform_all, "" when none
    calls,        \* number of transform_all calls started on the mapping object
    first         \* what the first call returned, <<>> until it returns

vars == <<input, datasets, transformed, pc, err, calls, first>>

(***************************************************************************)
(* Bounds of the model                                                     *)
(***************************************************************************)
MaxCalls == 2
MaxItems == 3
MaxPayments == 3
MaxOrders == 2

(***************************************************************************)
(* Cells, rows and tables                                                  *)
(***************************************************************************)
NA == <<>>
V(x) == <<x>>
IsNA(c) == c = NA
NotNA(c) == c # NA

Table(dt, rs) == [dtype |-> dt, rows |-> rs]
Cols(t) == DOMAIN t.dtype
NRows(t) == Len(t.rows)
Column(t, c) == [i \in 1..NRows(t) |-> t.rows[i][c]]

RECURSIVE Flatten(_)
Flatten(ss) == IF ss = <<>> THEN <<>> ELSE Head(ss) \o Flatten(Tail(ss))

RECURSIVE SumCells(_)
\* pandas sum with skipna: missing cells count as nothing, the empty sum is 0
SumCells(cs) ==
    IF cs = <<>> THEN 0
    ELSE (IF IsNA(Head(cs)) THEN 0 ELSE Head(cs)[1]) + SumCells(Tail(cs))

CountCells(cs) == Len(SelectSeq(cs, NotNA))

SeqToSet(s) == {s[i] : i \in 1..Len(s)}

\* Code-point order of the strings the model uses (Python str comparison).
Alphabet ==
    << "", "SP", "bed", "boleto", "c1", "c2", "c3", "cama", "card", "o1", "o2", "o3",
       "o4", "p1", "p2", "s1", "s2", "toy", "u1", "u2", "unknown" >>
Rank(s) == CHOOSE i \in 1..Len(Alphabet) : Alphabet[i] = s

RECURSIVE SortedCells(_)
\* the non-missing cells of a set in ascending order (strings by code point)
SortedCells(S) ==
    IF S = {} THEN <<>>
    ELSE LET m == CHOOSE a \in S : \A b \in S : Rank(a[1]) <= Rank(b[1])
         IN <<m>> \o SortedCells(S \ {m})

\* groupby(key) keys: distinct non-missing key cells, sorted (sort=True, dropna=True)
GroupKeys(t, key) == SortedCells({c \in SeqToSet(Column(t, key)) : NotNA(c)})
GroupRows(t, key, k) == SelectSeq(t.rows, LAMBDA r : r[key] = k)

Ok(t) == [ok |-> TRUE, df |-> t]
Raise(e) == [ok |-> FALSE, err |-> e]

(***************************************************************************)
(* DataFrame.merge(how='left', on=key)                                     *)
(***************************************************************************)
\* pandas' suffixes for a column name that both sides of a merge carry
SuffixX(c) ==
    CASE c = "product_category_name_english" -> "product_category_name_english_x"
      [] c = "total_orders" -> "total_orders_x"
      [] c = "is_recurring_customer" -> "is_recurring_customer_x"
      [] OTHER -> c
SuffixY(c) ==
    CASE c = "product_category_name_english" -> "product_category_name_english_y"
      [] c = "total_orders" -> "total_orders_y"
      [] c = "is_recurring_customer" -> "is_recurring_customer_y"
      [] OTHER -> c

\* `unmatched` says whether a left row without a match is kept (how='left')
\* or dropped (how='inner')
Merge(l, r, key, unmatched) ==
    LET overlap == (Cols(l) \cap Cols(r)) \ {key}
        lname(c) == IF c \in overlap THEN SuffixX(c) ELSE c
        rname(c) == IF c \in overlap THEN SuffixY(c) ELSE c
        rcols == Cols(r) \ {key}
        newcols == {lname(c) : c \in Cols(l)} \cup {rname(c) : c \in rcols}
        fromleft(c) == \E lc \in Cols(l) : lname(lc) = c
        lsrc(c) == CHOOSE lc \in Cols(l) : lname(lc) = c
        rsrc(c) == CHOOSE rc \in rcols : rname(rc) = c
        nullrow == [c \in rcols |-> NA]
        join(lr, rr) == [c \in newcols |->
                            IF fromleft(c) THEN lr[lsrc(c)] ELSE rr[rsrc(c)]]
        matches(lr) == SelectSeq(r.rows, LAMBDA rr : rr[key] = lr[key])
        expand(lr) == IF matches(lr) = <<>>
                      THEN (IF unmatched THEN << join(lr, nullrow) >> ELSE <<>>)
                      ELSE [i \in 1..Len(matches(lr)) |-> join(lr, matches(lr)[i])]
    IN Table([c \in newcols |->
                 IF fromleft(c) THEN l.dtype[lsrc(c)] ELSE r.dtype[rsrc(c)]],
             Flatten([i \in 1..NRows(l) |-> expand(l.rows[i])]))

\* A join that loses the left rows without a match.
InnerMerge(l, r, key) == Merge(l, r, key, FALSE)

LeftMerge(l, r, key) == Merge(l, r, key, TRUE)

\* df[[c1, c2, ...]]
Project(t, cs) ==
    Table([c \in cs |-> t.dtype[c]],
          [i \in 1..NRows(t) |-> [c \in cs |-> t.rows[i][c]]])

\* df[c] = cells, a sequence with one cell per row
WithColumn(t, c, dt, cells) ==
    Table([d \in Cols(t) \cup {c} |-> IF d = c THEN dt ELSE t.dtype[d]],
          [i \in 1..NRows(t) |->
              [d \in Cols(t) \cup {c} |-> IF d = c THEN cells[i] ELSE t.rows[i][d]]])

\* df[c] = df[c].fillna(v)
FillNa(t, c, v) ==
    WithColumn(t, c, t.dtype[c],
               [i \in 1..NRows(t) |-> IF IsNA(t.rows[i][c]) THEN V(v) ELSE t.rows[i][c]])

(***************************************************************************)
(* Schema Normalizer                                                       *)
(***************************************************************************)
\* str.lower().str.strip() on the column names the model uses
LowerStrip(c) ==
    CASE c = " Seller_Rank " -> "seller_rank"
      [] c = "Customer ID" -> "customer id"
      [] c = "Order Date" -> "order date"
      [] c = "Total Value" -> "total value"
      [] OTHER -> c

standardize_columns(df, dataset_name) ==
    LET newcols == {LowerStrip(c) : c \in Cols(df)}
        src(c) == CHOOSE d \in Cols(df) : LowerStrip(d) = c
    IN Table([c \in newcols |-> df.dtype[src(c)]],
             [i \in 1..NRows(df) |-> [c \in newcols |-> df.rows[i][src(c)]]])

RECURSIVE FillAll(_, _, _)
FillAll(t, cs, v) ==
    IF cs = {} THEN t
    ELSE LET c == CHOOSE d \in cs : TRUE
         IN FillAll(FillNa(t, c, v), cs \ {c}, v)

\* df.select_dtypes(include=['string', 'object']).columns
StringCols(t) == {c \in Cols(t) : t.dtype[c] = "string"}

\* a fill that forgets the rules of the single datasets
handle_missing_generic_only(df, dataset_name) ==
    FillAll(df, StringCols(df), "unknown")

\* a fill that does not select the textual columns
handle_missing_every_column(df, dataset_name) ==
    FillAll(df, Cols(df), "unknown")

handle_missing_values(df, dataset_name) ==
    LET specific ==
            IF dataset_name = "products"
            THEN FillAll(df, {"product_category_name"} \cap Cols(df), "unknown")
            ELSE IF dataset_name = "order_reviews"
            THEN FillAll(df, {"review_comment_title", "review_comment_message"}
                                 \cap Cols(df), "")
            ELSE df
    IN FillAll(specific, StringCols(specific), "unknown")

(***************************************************************************)
(* Date conversion                                                         *)
(***************************************************************************)
\* resolution of the model's clock: one day is two half days
HalfDaysPerDay == 2

\* The date strings of the model and the instant each parses to, in half
\* days since 2023-01-01 00:00:00.
DateValue ==
    ( "2023-01-01 00:00:00" :> 0 ) @@ ( "2023-01-03 12:00:00" :> 5 ) @@
    ( "2023-01-04 00:00:00" :> 6 ) @@ ( "2023-01-04 12:00:00" :> 7 ) @@
    ( "2023-01-10 00:00:00" :> 18 ) @@ ( "2024-01-04 00:00:00" :> 736 ) @@
    ( "2024-01-04 12:00:00" :> 737 ) @@ ( "2024-01-05 00:00:00" :> 738 ) @@
    ( "2024-02-08 00:00:00" :> 806 )

\* pd.to_datetime(errors='coerce') of one cell of a column of the given dtype
to_datetime(cell, dtype) ==
    IF IsNA(cell) THEN NA
    ELSE IF dtype = "datetime" THEN cell
    ELSE IF cell[1] \in DOMAIN DateValue THEN V(DateValue[cell[1]])
    ELSE NA

RECURSIVE convert_dates(_, _)
convert_dates(df, date_columns) ==
    IF date_columns = <<>> THEN df
    ELSE LET col == Head(date_columns)
             done == IF col \in Cols(df)
                     THEN WithColumn(df, col, "datetime",
                              [i \in 1..NRows(df) |->
                                  to_datetime(df.rows[i][col], df.dtype[col])])
                     ELSE df
         IN convert_dates(done, Tail(date_columns))

(***************************************************************************)
(* Category Enricher                                                       *)
(***************************************************************************)
\* an enrichment that falls back to 'unknown' without trying the product's own
\* category name
enrich_products_unknown_only(df_products, df_category_translation) ==
    LET df == LeftMerge(df_products, df_category_translation, "product_category_name")
    IN Ok(FillNa(df, "product_category_name_english", "unknown"))

enrich_products(df_products, df_category_translation) ==
    IF "product_category_name" \notin Cols(df_products)
       \/ "product_category_name" \notin Cols(df_category_translation)
    THEN Raise("KeyError")
    ELSE LET df == LeftMerge(df_products, df_category_translation,
                             "product_category_name")
         IN IF "product_category_name_english" \notin Cols(df)
            THEN Raise("KeyError")
            ELSE Ok(WithColumn(df, "product_category_name_english", "string",
                      [i \in 1..NRows(df) |->
                        IF NotNA(df.rows[i]["product_category_name_english"])
                        THEN df.rows[i]["product_category_name_english"]
                        ELSE IF NotNA(df.rows[i]["product_category_name"])
                        THEN df.rows[i]["product_category_name"]
                        ELSE V("unknown")]))

(***************************************************************************)
(* Order Metric Aggregator                                                 *)
(***************************************************************************)
RECURSIVE MaxCells(_)
\* pandas max with skipna: NA when every cell is missing
MaxCells(cs) ==
    IF cs = <<>> THEN NA
    ELSE LET rest == MaxCells(Tail(cs))
         IN IF IsNA(Head(cs)) THEN rest
            ELSE IF IsNA(rest) THEN Head(cs)
            ELSE IF Head(cs)[1] >= rest[1] THEN Head(cs) ELSE rest

GroupColumn(g, c) == [i \in 1..Len(g) |-> g[i][c]]

\* nunique instead of count: repeated products counted once
order_items_nunique(g) ==
    Cardinality({c \in SeqToSet(GroupColumn(g, "product_id")) : NotNA(c)})

\* 'product_id': 'count'
order_items_count(g) == CountCells(GroupColumn(g, "product_id"))

calculate_order_metrics(df_order_items) ==
    IF ~ ({"order_id", "price", "freight_value", "product_id", "order_item_id"}
              \subseteq Cols(df_order_items))
    THEN Raise("KeyError")
    ELSE LET keys == GroupKeys(df_order_items, "order_id")
             metric(k) ==
                 LET g == GroupRows(df_order_items, "order_id", k)
                     price == SumCells(GroupColumn(g, "price"))
                     freight == SumCells(GroupColumn(g, "freight_value"))
                 IN [order_id |-> k,
                     order_items_total_price |-> V(price),
                     order_items_total_freight |-> V(freight),
                     order_items_count |-> V(order_items_count(g)),
                     order_max_item_id |-> MaxCells(GroupColumn(g, "order_item_id")),
                     order_total_value |-> V(price + freight)]
         IN Ok(Table([order_id |-> df_order_items.dtype["order_id"],
                      order_items_total_price |-> "number",
                      order_items_total_freight |-> "number",
                      order_items_count |-> "number",
                      order_max_item_id |-> "number",
                      order_total_value |-> "number"],
                     [i \in 1..Len(keys) |-> metric(keys[i])]))

(***************************************************************************)
(* Delivery Metric Calculator                                              *)
(***************************************************************************)
MaxDeliveryDays == 365

\* (a - b).dt.days: the floor of the difference in whole days
DaysBetween(a, b) ==
    IF IsNA(a) \/ IsNA(b) THEN NA
    ELSE V((a[1] - b[1]) \div HalfDaysPerDay)

\* an outlier rule that also drops the boundary value of 365 days
SuppressOutlierExclusive(c) ==
    IF NotNA(c) /\ (c[1] < 0 \/ c[1] >= MaxDeliveryDays) THEN NA ELSE c

\* df.loc[days < 0] = NA, then df.loc[days > 365] = NA
SuppressOutlier(c) ==
    LET nonneg == IF NotNA(c) /\ c[1] < 0 THEN NA ELSE c
    IN IF NotNA(nonneg) /\ nonneg[1] > MaxDeliveryDays THEN NA ELSE nonneg

\* lines 224-230: the delivery time of one order, outliers suppressed
delivery_time_days(r) ==
    SuppressOutlier(DaysBetween(r["order_delivered_customer_date"],
                                r["order_purchase_timestamp"]))

\* a delay to which the outlier rule of the delivery time is applied as well
delivery_delay_suppressed(r) ==
    SuppressOutlier(DaysBetween(r["order_delivered_customer_date"],
                                r["order_estimated_delivery_date"]))

\* lines 237-239: the delay against the estimate, kept as computed
delivery_delay_days(r) ==
    DaysBetween(r["order_delivered_customer_date"], r["order_estimated_delivery_date"])

calculate_delivery_metrics(df_orders) ==
    LET df == convert_dates(df_orders,
                  << "order_purchase_timestamp", "order_delivered_customer_date",
                     "order_estimated_delivery_date" >>)
        timed ==
            IF {"order_delivered_customer_date", "order_purchase_timestamp"}
                   \subseteq Cols(df)
            THEN WithColumn(df, "delivery_time_days", "number",
                            [i \in 1..NRows(df) |-> delivery_time_days(df.rows[i])])
            ELSE df
    IN IF {"order_estimated_delivery_date", "order_delivered_customer_date"}
              \subseteq Cols(timed)
       THEN WithColumn(timed, "delivery_delay_days", "number",
                       [i \in 1..NRows(timed) |-> delivery_delay_days(timed.rows[i])])
       ELSE timed

(***************************************************************************)
(* Recurrence Classifier                                                   *)
(***************************************************************************)
\* a count of the customer ids of the group instead of its orders
total_customers(g) ==
    Cardinality({c \in SeqToSet(GroupColumn(g, "customer_id")) : NotNA(c)})

\* groupby('customer_unique_id')['order_id'].count() of one group
total_orders(g) == CountCells(GroupColumn(g, "order_id"))

identify_recurring_customers(df_orders, df_customers) ==
    IF ~ ({"customer_id", "customer_unique_id"} \subseteq Cols(df_customers))
       \/ ~ ({"customer_id", "order_id"} \subseteq Cols(df_orders))
       \/ "customer_unique_id" \in Cols(df_orders)
    THEN Raise("KeyError")
    ELSE LET merged == LeftMerge(df_orders,
                           Project(df_customers, {"customer_id", "customer_unique_id"}),
                           "customer_id")
             keys == GroupKeys(merged, "customer_unique_id")
             count(k) ==
                 LET n == total_orders(GroupRows(merged, "customer_unique_id", k))
                 IN [customer_unique_id |-> k,
                     total_orders |-> V(n),
                     is_recurring_customer |-> V(n > 1)]
             customer_order_count ==
                 Table([customer_unique_id |-> "string",
                        total_orders |-> "number",
                        is_recurring_customer |-> "bool"],
                       [i \in 1..Len(keys) |-> count(keys[i])])
             df == LeftMerge(df_customers, customer_order_count, "customer_unique_id")
         IN IF "total_orders" \notin Cols(df)
            THEN Raise("KeyError")
            ELSE Ok(FillNa(FillNa(df, "total_orders", 0),
                           "is_recurring_customer", FALSE))

(***************************************************************************)
(* Geolocation Validator                                                   *)
(***************************************************************************)
MinLat == -33
MaxLat == 5
MinLng == -73
MaxLng == -32

\* a range test that leaves the bounds out
BetweenExclusive(c, lo, hi) == NotNA(c) /\ lo < c[1] /\ c[1] < hi

\* Series.between(lo, hi): bounds included, a missing value is not between
Between(c, lo, hi) == NotNA(c) /\ lo <= c[1] /\ c[1] <= hi

validate_geolocation(df_geolocation) ==
    IF {"geolocation_lat", "geolocation_lng"} \subseteq Cols(df_geolocation)
    THEN WithColumn(df_geolocation, "is_valid_coordinate", "bool",
             [i \in 1..NRows(df_geolocation) |->
                 V(Between(df_geolocation.rows[i]["geolocation_lat"], MinLat, MaxLat)
                   /\ Between(df_geolocation.rows[i]["geolocation_lng"], MinLng, MaxLng))])
    ELSE df_geolocation

(***************************************************************************)
(* Fact Table Builder                                                      *)
(***************************************************************************)
CountOf(cs, v) == Len(SelectSeq(cs, LAMBDA c : c = v))

\* Series.mode(): the most frequent non-missing values, in sorted order
Mode(cs) ==
    LET vals == {c \in SeqToSet(cs) : NotNA(c)}
    IN SortedCells({v \in vals : \A w \in vals : CountOf(cs, v) >= CountOf(cs, w)})

\* lambda x: x.mode().iloc[0] if len(x.mode()) > 0 else x.iloc[0] if len(x) > 0 else None
MainValue(cs) ==
    IF Len(Mode(cs)) > 0 THEN Mode(cs)[1]
    ELSE IF Len(cs) > 0 THEN cs[1] ELSE NA

\* lambda x: x.mode().iloc[0] if len(x.mode()) > 0 else 'unknown'
MainCategory(cs) == IF Len(Mode(cs)) > 0 THEN Mode(cs)[1] ELSE V("unknown")

\* distinct values in sorted order instead of first-seen order
UniqueSorted(cs) == SortedCells(SeqToSet(cs))

RECURSIVE Unique(_)
\* Series.unique(): the distinct cells in order of first appearance
Unique(cs) ==
    IF cs = <<>> THEN <<>>
    ELSE LET init == Unique(SubSeq(cs, 1, Len(cs) - 1))
             last == cs[Len(cs)]
         IN IF last \in SeqToSet(init) THEN init ELSE Append(init, last)

\* ', '.join(parts): the joined text is kept as the sequence of its parts
JoinParts(cs) == V([i \in 1..Len(cs) |-> cs[i][1]])

\* Series.mean() with skipna, kept as the fraction sum / count
Mean(cs) ==
    IF CountCells(cs) = 0 THEN NA
    ELSE V([num |-> SumCells(cs), den |-> CountCells(cs)])

\* groupby('order_id'): the groups in key order, each with its key and rows
Groups(t) ==
    LET keys == GroupKeys(t, "order_id")
    IN [i \in 1..Len(keys) |-> [key |-> keys[i], rows |-> GroupRows(t, "order_id", keys[i])]]

payment_metrics(df_order_payments) ==
    IF ~ ({"order_id", "payment_value", "payment_type", "payment_installments"}
              \subseteq Cols(df_order_payments))
    THEN Raise("KeyError")
    ELSE IF \E i \in 1..NRows(df_order_payments) :
                /\ NotNA(df_order_payments.rows[i]["order_id"])
                /\ IsNA(df_order_payments.rows[i]["payment_type"])
    THEN Raise("TypeError")
    ELSE LET gs == Groups(df_order_payments)
         IN Ok(Table([order_id |-> "string", total_payment_value |-> "number",
                      payment_types |-> "string", max_installments |-> "number"],
                     [i \in 1..Len(gs) |->
                        [order_id |-> gs[i].key,
                         total_payment_value |->
                             V(SumCells(GroupColumn(gs[i].rows, "payment_value"))),
                         payment_types |->
                             JoinParts(Unique(GroupColumn(gs[i].rows, "payment_type"))),
                         max_installments |->
                             MaxCells(GroupColumn(gs[i].rows, "payment_installments"))]]))

review_metrics(df_order_reviews) ==
    IF ~ ({"order_id", "review_score", "review_comment_message"}
              \subseteq Cols(df_order_reviews))
    THEN Raise("KeyError")
    ELSE LET gs == Groups(df_order_reviews)
         IN Ok(Table([order_id |-> "string", avg_review_score |-> "number",
                      has_review_comment |-> "bool"],
                     [i \in 1..Len(gs) |->
                        [order_id |-> gs[i].key,
                         avg_review_score |-> Mean(GroupColumn(gs[i].rows, "review_score")),
                         has_review_comment |->
                             V(CountCells(GroupColumn(gs[i].rows,
                                                      "review_comment_message")) > 0)]]))

main_product(product_agg) ==
    LET gs == Groups(product_agg)
    IN Table([order_id |-> "string", main_product_id |-> "string"],
             [i \in 1..Len(gs) |->
                [order_id |-> gs[i].key,
                 main_product_id |-> MainValue(GroupColumn(gs[i].rows, "product_id"))]])

main_category(product_agg) ==
    LET gs == Groups(product_agg)
    IN Table([order_id |-> "string", main_product_category |-> "string"],
             [i \in 1..Len(gs) |->
                [order_id |-> gs[i].key,
                 main_product_category |->
                     MainCategory(GroupColumn(gs[i].rows, "product_category_name_english"))]])

main_seller(df_order_items) ==
    LET gs == Groups(df_order_items)
    IN Table([order_id |-> "string", main_seller_id |-> "string"],
             [i \in 1..Len(gs) |->
                [order_id |-> gs[i].key,
                 main_seller_id |-> MainValue(GroupColumn(gs[i].rows, "seller_id"))]])

\* groupby('order_id')['seller_id'].nunique()
seller_count(df_order_items) ==
    LET gs == Groups(df_order_items)
    IN Table([order_id |-> "string", unique_sellers_count |-> "number"],
             [i \in 1..Len(gs) |->
                [order_id |-> gs[i].key,
                 unique_sellers_count |->
                     V(Cardinality({c \in SeqToSet(GroupColumn(gs[i].rows, "seller_id")) :
                                       NotNA(c)}))]])

create_fact_table(df_orders, df_order_items, df_order_payments, df_order_reviews, df_customers, df_products, df_sellers) ==
    LET order_metrics == calculate_order_metrics(df_order_items)
        df_orders_enriched == calculate_delivery_metrics(df_orders)
        payments == payment_metrics(df_order_payments)
        reviews == review_metrics(df_order_reviews)
    IN  IF ~ order_metrics.ok THEN order_metrics
        ELSE IF ~ payments.ok THEN payments
        ELSE IF ~ reviews.ok THEN reviews
        ELSE IF "order_id" \notin Cols(df_orders_enriched) THEN Raise("KeyError")
        ELSE IF ~ ({"customer_id", "customer_unique_id", "customer_state", "customer_city"}
                       \subseteq Cols(df_customers))
                \/ "customer_id" \notin Cols(df_orders_enriched)
        THEN Raise("KeyError")
        ELSE IF ~ ({"product_id", "product_category_name_english"} \subseteq Cols(df_products))
        THEN Raise("KeyError")
        ELSE IF "seller_id" \notin Cols(df_order_items) THEN Raise("KeyError")
        ELSE
        LET joined == LeftMerge(LeftMerge(LeftMerge(df_orders_enriched, order_metrics.df,
                                                    "order_id"),
                                          payments.df, "order_id"),
                                reviews.df, "order_id")
            with_customers ==
                LeftMerge(joined,
                          Project(df_customers, {"customer_id", "customer_unique_id",
                                                 "customer_state", "customer_city"}),
                          "customer_id")
            product_agg ==
                FillNa(LeftMerge(df_order_items,
                                 Project(df_products,
                                         {"product_id", "product_category_name_english"}),
                                 "product_id"),
                       "product_category_name_english", "unknown")
            products == LeftMerge(main_product(product_agg), main_category(product_agg),
                                  "order_id")
            seller_agg == LeftMerge(main_seller(df_order_items),
                                    seller_count(df_order_items), "order_id")
        IN Ok(LeftMerge(LeftMerge(with_customers, products, "order_id"),
                        seller_agg, "order_id"))

(***************************************************************************)
(* Raw tables as the extraction stage delivers them (src/src/extract.py:   *)
(* every textual and date column has dtype string, missing cells are NA).  *)
(***************************************************************************)
Names ==
    {"orders", "order_items", "order_payments", "order_reviews", "customers",
     "products", "sellers", "category_translation", "geolocation"}

OrdersDtype ==
    [order_id |-> "string", customer_id |-> "string",
     order_purchase_timestamp |-> "string", order_delivered_carrier_date |-> "string",
     order_delivered_customer_date |-> "string",
     order_estimated_delivery_date |-> "string"]
Order(oid, cid, purchase, carrier, delivered, estimated) ==
    [order_id |-> oid, customer_id |-> cid, order_purchase_timestamp |-> purchase,
     order_delivered_carrier_date |-> carrier,
     order_delivered_customer_date |-> delivered,
     order_estimated_delivery_date |-> estimated]

ItemsDtype ==
    [order_id |-> "string", order_item_id |-> "number", product_id |-> "string",
     seller_id |-> "string", shipping_limit_date |-> "string", price |-> "number",
     freight_value |-> "number"]
Item(oid, n, pid, sid, price, freight) ==
    [order_id |-> oid, order_item_id |-> n, product_id |-> pid, seller_id |-> sid,
     shipping_limit_date |-> V("2023-01-04 12:00:00"), price |-> price,
     freight_value |-> freight]

PaymentsDtype ==
    [order_id |-> "string", payment_sequential |-> "number", payment_type |-> "string",
     payment_installments |-> "number", payment_value |-> "number"]
Payment(oid, n, type, installments, value) ==
    [order_id |-> oid, payment_sequential |-> n, payment_type |-> type,
     payment_installments |-> installments, payment_value |-> value]

ReviewsDtype ==
    [review_id |-> "string", order_id |-> "string", review_score |-> "number",
     review_comment_title |-> "string", review_comment_message |-> "string",
     review_creation_date |-> "string"]
Review(rid, oid, score, title, message) ==
    [review_id |-> rid, order_id |-> oid, review_score |-> score,
     review_comment_title |-> title, review_comment_message |-> message,
     review_creation_date |-> V("2023-01-10 00:00:00")]

CustomersDtype ==
    [customer_id |-> "string", customer_unique_id |-> "string",
     customer_city |-> "string", customer_state |-> "string"]
Customer(cid, uid) ==
    [customer_id |-> cid, customer_unique_id |-> uid, customer_city |-> NA,
     customer_state |-> V("SP")]

ProductsDtype ==
    [product_id |-> "string", product_category_name |-> "string",
     product_weight_g |-> "number"]
Product(pid, category, weight) ==
    [product_id |-> pid, product_category_name |-> category, product_weight_g |-> weight]

SellersDtype == [seller_id |-> "string", seller_state |-> "string"]
                    @@ (" Seller_Rank " :> "number")
Seller(sid, state) == [seller_id |-> sid, seller_state |-> state]
                          @@ (" Seller_Rank " :> V(1))

TranslationDtype ==
    [product_category_name |-> "string", product_category_name_english |-> "string"]
Translation(name, english) ==
    [product_category_name |-> name, product_category_name_english |-> english]

GeoDtype ==
    [geolocation_lat |-> "number", geolocation_lng |-> "number",
     geolocation_city |-> "string"]
Geo(lat, lng) == [geolocation_lat |-> lat, geolocation_lng |-> lng,
                  geolocation_city |-> NA]

BaseOrders ==
    Table(OrdersDtype,
          << Order(V("o1"), V("c1"), V("2023-01-04 00:00:00"), V("2023-01-04 12:00:00"),
                   V("2023-01-10 00:00:00"), V("2023-01-10 00:00:00")),
             Order(V("o2"), V("c2"), V("2023-01-04 00:00:00"), NA, NA,
                   V("2023-01-10 00:00:00")) >>)
BaseItems ==
    Table(ItemsDtype,
          << Item(V("o1"), V(1), V("p1"), V("s2"), V(1000), V(500)),
             Item(V("o1"), V(2), V("p2"), V("s1"), V(2000), V(500)) >>)
BasePayments ==
    Table(PaymentsDtype,
          << Payment(V("o1"), V(1), V("card"), V(3), V(2500)),
             Payment(V("o1"), V(2), V("boleto"), V(1), V(1500)) >>)
BaseReviews ==
    Table(ReviewsDtype,
          << Review(V("r1"), V("o1"), V(5), NA, NA),
             Review(V("r2"), V("o1"), V(4), NA, NA) >>)
BaseCustomers ==
    Table(CustomersDtype, << Customer(V("c1"), V("u1")), Customer(V("c2"), V("u1")) >>)
BaseProducts ==
    Table(ProductsDtype,
          << Product(V("p1"), V("cama"), V(300)), Product(V("p2"), NA, NA) >>)
BaseSellers ==
    Table(SellersDtype, << Seller(V("s1"), V("SP")), Seller(V("s2"), NA) >>)
BaseTranslation ==
    Table(TranslationDtype, << Translation(V("cama"), V("bed")) >>)
BaseGeolocation ==
    Table(GeoDtype, << Geo(V(-23), V(-46)), Geo(V(10), V(-46)), Geo(NA, V(-46)) >>)

BaseTables ==
    [orders |-> BaseOrders, order_items |-> BaseItems, order_payments |-> BasePayments,
     order_reviews |-> BaseReviews, customers |-> BaseCustomers,
     products |-> BaseProducts, sellers |-> BaseSellers,
     category_translation |-> BaseTranslation, geolocation |-> BaseGeolocation]

(***************************************************************************)
(* Initial states: the caller holds a raw mapping and calls transform_all. *)
(***************************************************************************)
Start(mapping) ==
    /\ input = mapping
    /\ datasets = mapping
    /\ transformed = <<>>
    /\ pc = "standardize"
    /\ err = ""
    /\ calls = 1
    /\ first = <<>>

\* every subset of the nine canonical datasets, each with its expected columns
InitSubsets ==
    \E present \in SUBSET Names : Start([n \in present |-> BaseTables[n]])

\* the item rows the order-items tables of the model are built from:
\* [order, product, seller, price, freight]
ItemVariants ==
    { << V("o1"), V("p1"), V("s1"), V(1000), V(500) >>,
      << V("o1"), V("p2"), V("s2"), V(2000), NA >>,
      << V("o1"), V("p1"), V("s2"), NA, V(300) >>,
      << V("o1"), V("p2"), V("s1"), V(1000), V(500) >>,
      << V("o2"), V("p1"), V("s1"), V(2000), V(500) >>,
      << V("o2"), NA, V("s2"), V(1000), NA >>,
      << V("o3"), V("p2"), V("s2"), V(1000), V(500) >>,
      << NA, V("p1"), V("s1"), V(1000), V(500) >> }

ItemsTable(vs) ==
    Table(ItemsDtype,
          [i \in 1..Len(vs) |-> Item(vs[i][1], V(i), vs[i][2], vs[i][3], vs[i][4], vs[i][5])])

\* all nine datasets, the order items being any 1..MaxItems rows
InitItems ==
    \E n \in 1..MaxItems : \E vs \in [1..n -> ItemVariants] :
        Start([BaseTables EXCEPT !["order_items"] = ItemsTable(vs)])

PurchaseTexts == {V("2023-01-04 00:00:00"), V("2023-01-04 12:00:00"), V("n/a"), NA}
DeliveredTexts == {V(d) : d \in DOMAIN DateValue} \cup {NA}
EstimatedTexts == {V("2023-01-10 00:00:00"), V("2023-01-04 12:00:00"), NA}

\* all nine datasets, the dates of the first order being any text or missing
InitDates ==
    \E p \in PurchaseTexts, d \in DeliveredTexts, e \in EstimatedTexts :
        Start([BaseTables EXCEPT
                  !["orders"] = Table(OrdersDtype,
                                      << Order(V("o1"), V("c1"), p, d, d, e),
                                         BaseOrders.rows[2] >>)])

OrderIds == << "o1", "o2", "o3", "o4" >>
OrderCustomers == {V("c1"), V("c2"), V("c3"), NA}

\* all nine datasets, 1..MaxOrders orders placed by any customers, and the
\* two customers being the same person, two persons, or of unknown identity
InitCustomers ==
    \E n \in 1..MaxOrders : \E cs \in [1..n -> OrderCustomers] :
    \E u1 \in {V("u1"), V("u2"), NA}, u2 \in {V("u1"), V("u2")} :
        Start([BaseTables EXCEPT
                  !["orders"] =
                      Table(OrdersDtype,
                            [i \in 1..n |->
                                Order(V(OrderIds[i]), cs[i], V("2023-01-04 00:00:00"),
                                      NA, NA, V("2023-01-10 00:00:00"))]),
                  !["customers"] =
                      Table(CustomersDtype,
                            << Customer(V("c1"), u1), Customer(V("c2"), u2) >>)])

\* the payment rows the payments tables of the model are built from:
\* [order, type, installments, value]
PaymentVariants ==
    { << V("o1"), V("card"), V(3), V(2500) >>,
      << V("o1"), V("boleto"), V(1), V(1500) >>,
      << V("o2"), V("card"), NA, NA >>,
      << V("o2"), V("boleto"), V(2), V(1000) >> }

\* all nine datasets, the payments being any 1..MaxPayments rows
InitPayments ==
    \E n \in 1..MaxPayments : \E vs \in [1..n -> PaymentVariants] :
        Start([BaseTables EXCEPT
                  !["order_payments"] =
                      Table(PaymentsDtype,
                            [i \in 1..n |->
                                Payment(vs[i][1], V(i), vs[i][2], vs[i][3], vs[i][4])])])

Init == InitSubsets \/ InitItems \/ InitDates \/ InitCustomers \/ InitPayments

(***************************************************************************)
(* Transform Orchestrator: transform_all, one action per numbered stage    *)
(***************************************************************************)
Has(ns) == ns \subseteq DOMAIN datasets
Advance(next) == pc' = next /\ err' = err
Fail(e) == pc' = "raised" /\ err' = e

date_columns_map ==
    [orders |-> << "order_purchase_timestamp", "order_approved_at",
                   "order_delivered_carrier_date", "order_delivered_customer_date",
                   "order_estimated_delivery_date" >>,
     order_items |-> << "shipping_limit_date" >>,
     order_reviews |-> << "review_creation_date", "review_answer_timestamp" >>]

\* a required list that forgets the sellers
required_without_sellers ==
    {"orders", "order_items", "order_payments", "order_reviews", "customers", "products"}

required_for_fact ==
    {"orders", "order_items", "order_payments", "order_reviews", "customers",
     "products", "sellers"}

StandardizeColumns ==
    /\ pc = "standardize"
    /\ datasets' = [n \in DOMAIN datasets |-> standardize_columns(datasets[n], n)]
    /\ Advance("missing")
    /\ UNCHANGED <<input, transformed, calls, first>>

HandleMissingValues ==
    /\ pc = "missing"
    /\ datasets' = [n \in DOMAIN datasets |-> handle_missing_values(datasets[n], n)]
    /\ Advance("dates")
    /\ UNCHANGED <<input, transformed, calls, first>>

ConvertDates ==
    /\ pc = "dates"
    /\ datasets' = [n \in DOMAIN datasets |->
                       IF n \in DOMAIN date_columns_map
                       THEN convert_dates(datasets[n], date_columns_map[n])
                       ELSE datasets[n]]
    /\ Advance("enrich")
    /\ UNCHANGED <<input, transformed, calls, first>>

EnrichProducts ==
    /\ pc = "enrich"
    /\ IF Has({"products", "category_translation"})
       THEN LET r == enrich_products(datasets["products"],
                                     datasets["category_translation"])
            IN IF r.ok
               THEN datasets' = [datasets EXCEPT !["products"] = r.df]
                    /\ Advance("order_metrics")
               ELSE Fail(r.err) /\ UNCHANGED datasets
       ELSE Advance("order_metrics") /\ UNCHANGED datasets
    /\ UNCHANGED <<input, transformed, calls, first>>

OrderMetrics ==
    /\ pc = "order_metrics"
    /\ IF Has({"order_items"})
       THEN LET r == calculate_order_metrics(datasets["order_items"])
            IN IF r.ok
               THEN transformed' = ("order_metrics" :> r.df) @@ transformed
                    /\ Advance("delivery")
               ELSE Fail(r.err) /\ UNCHANGED transformed
       ELSE Advance("delivery") /\ UNCHANGED transformed
    /\ UNCHANGED <<input, datasets, calls, first>>

DeliveryMetrics ==
    /\ pc = "delivery"
    /\ IF Has({"orders"})
       THEN datasets' = [datasets EXCEPT
                            !["orders"] = calculate_delivery_metrics(datasets["orders"])]
       ELSE UNCHANGED datasets
    /\ Advance("recurring")
    /\ UNCHANGED <<input, transformed, calls, first>>

RecurringCustomers ==
    /\ pc = "recurring"
    /\ IF Has({"orders", "customers"})
       THEN LET r == identify_recurring_customers(datasets["orders"],
                                                  datasets["customers"])
            IN IF r.ok
               THEN datasets' = [datasets EXCEPT !["customers"] = r.df]
                    /\ Advance("geolocation")
               ELSE Fail(r.err) /\ UNCHANGED datasets
       ELSE Advance("geolocation") /\ UNCHANGED datasets
    /\ UNCHANGED <<input, transformed, calls, first>>

ValidateGeolocation ==
    /\ pc = "geolocation"
    /\ IF Has({"geolocation"})
       THEN datasets' = [datasets EXCEPT
                            !["geolocation"] = validate_geolocation(datasets["geolocation"])]
       ELSE UNCHANGED datasets
    /\ Advance("fact")
    /\ UNCHANGED <<input, transformed, calls, first>>

\* a fact stage placed before the recurrence stage
FactTableBeforeRecurrence ==
    /\ pc = "recurring"
    /\ IF Has(required_for_fact)
       THEN LET r == create_fact_table(datasets["orders"], datasets["order_items"],
                         datasets["order_payments"], datasets["order_reviews"],
                         datasets["customers"], datasets["products"],
                         datasets["sellers"])
            IN IF r.ok
               THEN transformed' = ("fact_orders" :> r.df) @@ transformed
                    /\ Advance("update")
               ELSE Fail(r.err) /\ UNCHANGED transformed
       ELSE Advance("update") /\ UNCHANGED transformed
    /\ UNCHANGED <<input, datasets, calls, first>>

FactTable ==
    /\ pc = "fact"
    /\ IF Has(required_for_fact)
       THEN LET r == create_fact_table(datasets["orders"], datasets["order_items"],
                         datasets["order_payments"], datasets["order_reviews"],
                         datasets["customers"], datasets["products"],
                         datasets["sellers"])
            IN IF r.ok
               THEN transformed' = ("fact_orders" :> r.df) @@ transformed
                    /\ Advance("update")
               ELSE Fail(r.err) /\ UNCHANGED transformed
       ELSE Advance("update") /\ UNCHANGED transformed
    /\ UNCHANGED <<input, datasets, calls, first>>

\* a return that hands back the datasets only and loses the derived tables
ReturnInputsOnly ==
    /\ pc = "update"
    /\ transformed' = datasets
    /\ first' = IF calls = 1 THEN transformed' ELSE first
    /\ Advance("returned")
    /\ UNCHANGED <<input, datasets, calls>>

\* transformed.update(datasets); return transformed
Return ==
    /\ pc = "update"
    /\ transformed' = [n \in DOMAIN transformed \cup DOMAIN datasets |->
                          IF n \in DOMAIN datasets THEN datasets[n] ELSE transformed[n]]
    /\ first' = IF calls = 1 THEN transformed' ELSE first
    /\ Advance("returned")
    /\ UNCHANGED <<input, datasets, calls>>

\* the caller runs transform_all again on the same mapping object
CallAgain ==
    /\ pc = "returned"
    /\ calls < MaxCalls
    /\ calls' = calls + 1
    /\ transformed' = <<>>
    /\ pc' = "standardize"
    /\ err' = ""
    /\ UNCHANGED <<input, datasets, first>>

Next ==
    \/ StandardizeColumns
    \/ HandleMissingValues
    \/ ConvertDates
    \/ EnrichProducts
    \/ OrderMetrics
    \/ DeliveryMetrics
    \/ RecurringCustomers
    \/ ValidateGeolocation
    \/ FactTable
    \/ Return
    \/ CallAgain

Spec == Init /\ [][Next]_vars

(***************************************************************************)
(* The component functions called on their own, the way                    *)
(* tests/test_transform.py calls them: `datasets` holds the argument       *)
(* tables, `transformed` the returned table under the name of its source,  *)
(* and pc names the function that returned.                                *)
(***************************************************************************)
MaxProducts == 2

Args(mapping) ==
    /\ input = mapping
    /\ datasets = mapping
    /\ transformed = <<>>
    /\ pc = "args"
    /\ err = ""
    /\ calls = 0
    /\ first = <<>>

ProductIds == << "p1", "p2", "p3" >>
CategoryCells == {V("cama"), V("toy"), NA}
WeightCells == {V(300), NA}
TranslationTables ==
    { <<>>,
      << Translation(V("cama"), V("bed")) >>,
      << Translation(V("cama"), V("bed")), Translation(V("toy"), NA) >>,
      << Translation(V("cama"), V("bed")), Translation(V("cama"), V("toy")) >> }

\* 1..MaxProducts products of any category and weight, and a translation table
ArgsProducts ==
    \E n \in 1..MaxProducts : \E cs \in [1..n -> CategoryCells \X WeightCells] :
    \E tr \in TranslationTables :
        Args([products |->
                  Table(ProductsDtype,
                        [i \in 1..n |-> Product(V(ProductIds[i]), cs[i][1], cs[i][2])]),
              category_translation |-> Table(TranslationDtype, tr)])

DateDtypes == {"string", "datetime"}
DateCell(dt) == IF dt = "string" THEN V("2023-01-10 00:00:00") ELSE V(DateValue["2023-01-10 00:00:00"])

\* an orders table whose delivery date columns are text or date-time, the
\* first order's delivery dates and customer being present or missing
ArgsOrders ==
    \E dt \in DateDtypes, carrier \in BOOLEAN, delivered \in BOOLEAN, cid \in {V("c1"), NA} :
        Args([orders |->
                  Table([OrdersDtype EXCEPT !["order_delivered_carrier_date"] = dt,
                                            !["order_delivered_customer_date"] = dt],
                        << Order(V("o1"), cid, V("2023-01-04 00:00:00"),
                                 IF carrier THEN DateCell(dt) ELSE NA,
                                 IF delivered THEN DateCell(dt) ELSE NA,
                                 V("2023-01-10 00:00:00")),
                           Order(V("o2"), V("c2"), V("2023-01-04 00:00:00"), NA, NA,
                                 V("2023-01-10 00:00:00")) >>)])

CommentCells == {V("bom"), V(""), NA}

\* a reviews table whose comment title, message and score are any cell
ArgsReviews ==
    \E title \in CommentCells, message \in CommentCells, score \in {V(5), NA} :
        Args([order_reviews |->
                  Table(ReviewsDtype, << Review(V("r1"), V("o1"), score, title, message),
                                         Review(NA, V("o1"), V(4), NA, NA) >>)])

ExtraDtype ==
    [review_comment_message |-> "string", product_category_name |-> "string",
     note |-> "string", amount |-> "number"]

\* a table under a name the pipeline does not know
ArgsExtra ==
    \E message \in {V("bom"), NA}, category \in {V("cama"), NA} :
    \E note \in {V("SP"), NA}, amount \in {V(1), NA} :
        Args([extra |->
                  Table(ExtraDtype,
                        << [review_comment_message |-> message,
                            product_category_name |-> category,
                            note |-> note, amount |-> amount] >>)])

LatCells == {V(MinLat - 1), V(MinLat), V(MaxLat), V(MaxLat + 1), NA}
LngCells == {V(MinLng - 1), V(MinLng), V(MaxLng), V(MaxLng + 1), NA}

\* a geolocation table whose first point is on, inside or outside the bounds
ArgsGeolocation ==
    \E lat \in LatCells, lng \in LngCells :
        Args([geolocation |-> Table(GeoDtype, << Geo(lat, lng), Geo(V(-23), V(-46)) >>)])

SheetColumns == {"Customer ID", "Order Date", "Total Value", " Seller_Rank ", "order_id"}

\* a table with any of the column names of the test, of the raw files and of
\* a name with surrounding blanks
ArgsColumns ==
    \E cs \in SUBSET SheetColumns : \E x \in {V("c1"), NA} :
        /\ cs # {}
        /\ Args([sheet |-> Table([c \in cs |-> "string"], << [c \in cs |-> x] >>)])

OptionalItemColumns == {"product_id", "order_item_id"}
ItemRows ==
    { << V("o1"), V(1000), V(500) >>, << V("o1"), V(2000), NA >>,
      << V("o2"), V(1500), V(300) >> }

\* an order-items table of 1..MaxItems rows that has order_id, price and
\* freight_value and any of the two other columns the aggregation names; the
\* function is called on the table as it is, so a product_id may be missing
ArgsItems ==
    \E opt \in SUBSET OptionalItemColumns :
    \E n \in 1..MaxItems : \E vs \in [1..n -> ItemRows] :
    \E ps \in [1..n -> {V("p1"), NA}] :
        LET cs == {"order_id", "price", "freight_value"} \cup opt
        IN Args([order_items |->
                     Project(Table(ItemsDtype,
                                   [i \in 1..n |-> Item(vs[i][1], V(i), ps[i], V("s1"),
                                                        vs[i][2], vs[i][3])]),
                             cs)])

UnitInit ==
    \/ ArgsProducts \/ ArgsOrders \/ ArgsReviews \/ ArgsExtra \/ ArgsGeolocation
    \/ ArgsColumns \/ ArgsItems

Returns(f) == pc' = f /\ err' = err

\* handle_missing_values(df, name) for every argument table
CallHandleMissingValues ==
    /\ pc = "args"
    /\ transformed' = [n \in DOMAIN datasets |-> handle_missing_values(datasets[n], n)]
    /\ Returns("handle_missing_values")
    /\ UNCHANGED <<input, datasets, calls, first>>

\* enrich_products(products, category_translation)
CallEnrichProducts ==
    /\ pc = "args"
    /\ Has({"products", "category_translation"})
    /\ LET r == enrich_products(datasets["products"], datasets["category_translation"])
       IN IF r.ok
          THEN transformed' = ("products" :> r.df) /\ Returns("enrich_products")
          ELSE Fail(r.err) /\ UNCHANGED transformed
    /\ UNCHANGED <<input, datasets, calls, first>>

\* validate_geolocation(geolocation)
CallValidateGeolocation ==
    /\ pc = "args"
    /\ Has({"geolocation"})
    /\ transformed' = ("geolocation" :> validate_geolocation(datasets["geolocation"]))
    /\ Returns("validate_geolocation")
    /\ UNCHANGED <<input, datasets, calls, first>>

\* standardize_columns(df, name) for every argument table
CallStandardizeColumns ==
    /\ pc = "args"
    /\ transformed' = [n \in DOMAIN datasets |-> standardize_columns(datasets[n], n)]
    /\ Returns("standardize_columns")
    /\ UNCHANGED <<input, datasets, calls, first>>

\* calculate_order_metrics(order_items)
CallCalculateOrderMetrics ==
    /\ pc = "args"
    /\ Has({"order_items"})
    /\ LET r == calculate_order_metrics(datasets["order_items"])
       IN IF r.ok
          THEN transformed' = ("order_metrics" :> r.df)
               /\ Returns("calculate_order_metrics")
          ELSE Fail(r.err) /\ UNCHANGED transformed
    /\ UNCHANGED <<input, datasets, calls, first>>

UnitNext ==
    \/ CallStandardizeColumns
    \/ CallCalculateOrderMetrics
    \/ CallHandleMissingValues
    \/ CallEnrichProducts
    \/ CallValidateGeolocation

UnitSpec == UnitInit /\ [][UnitNext]_vars

(***************************************************************************)
(* Extraction (src/src/extract.py) and run_etl (src/src/pipeline.py).      *)
(* Under RunEtlSpec `input` is the data directory: whether it exists and,  *)
(* per dataset, the state of its file (missing, empty, unreadable, or a    *)
(* csv with its table); `datasets` is what extract_all returned, `calls`   *)
(* counts the transform_all invocations and, once pc is                    *)
(* "run_etl_returned", `first` is the value run_etl returned.              *)
(***************************************************************************)
MaxAbsent == 1

File(state, df) == [state |-> state, df |-> df]
NoTable == Table(<<>>, <<>>)

\* SCHEMAS[name]['dtypes'] of the nine datasets; SCHEMAS[name]['columns'] lists the
\* same columns
SCHEMAS ==
    [customers |->
         [customer_id |-> "string", customer_unique_id |-> "string",
          customer_zip_code_prefix |-> "Int64", customer_city |-> "string",
          customer_state |-> "string"],
     geolocation |->
         [geolocation_zip_code_prefix |-> "Int64", geolocation_lat |-> "float64",
          geolocation_lng |-> "float64", geolocation_city |-> "string",
          geolocation_state |-> "string"],
     order_items |->
         [order_id |-> "string", order_item_id |-> "Int64", product_id |-> "string",
          seller_id |-> "string", shipping_limit_date |-> "string", price |-> "float64",
          freight_value |-> "float64"],
     order_payments |->
         [order_id |-> "string", payment_sequential |-> "Int64", payment_type |-> "string",
          payment_installments |-> "Int64", payment_value |-> "float64"],
     order_reviews |->
         [review_id |-> "string", order_id |-> "string", review_score |-> "Int64",
          review_comment_title |-> "string", review_comment_message |-> "string",
          review_creation_date |-> "string", review_answer_timestamp |-> "string"],
     orders |->
         [order_id |-> "string", customer_id |-> "string", order_status |-> "string",
          order_purchase_timestamp |-> "string", order_approved_at |-> "string",
          order_delivered_carrier_date |-> "string",
          order_delivered_customer_date |-> "string",
          order_estimated_delivery_date |-> "string"],
     products |->
         [product_id |-> "string", product_category_name |-> "string",
          product_name_lenght |-> "Float64", product_description_lenght |-> "Float64",
          product_photos_qty |-> "Float64", product_weight_g |-> "Float64",
          product_length_cm |-> "Float64", product_height_cm |-> "Float64",
          product_width_cm |-> "Float64"],
     sellers |->
         [seller_id |-> "string", seller_zip_code_prefix |-> "Int64",
          seller_city |-> "string", seller_state |-> "string"],
     category_translation |->
         [product_category_name |-> "string", product_category_name_english |-> "string"]]

\* SCHEMAS[name]['columns']: the columns a file of the dataset must have
SchemaColumns(dataset_name) == DOMAIN SCHEMAS[dataset_name]

validate_schema(df, dataset_name) ==
    IF dataset_name \notin DOMAIN SCHEMAS THEN TRUE
    ELSE SchemaColumns(dataset_name) \subseteq Cols(df)

\* the texts of the model that astype reads as a number, and the number
NumberText == ("7" :> 7) @@ ("12345" :> 12345) @@ ("67890" :> 67890)

\* apply_dtypes: a column of the schema is cast to its dtype; a cast that fails leaves
\* the column as it is.  'string': the numbers of a numeric column become their text
\* (a column with a missing value is float64 and prints with a decimal); 'Int64' is
\* astype('int64'), which fails on a missing value or a text that is no number;
\* the float dtypes fail on a text that is no number only.
apply_dtypes(df, dataset_name) ==
    IF dataset_name \notin DOMAIN SCHEMAS THEN df
    ELSE LET dtypes == SCHEMAS[dataset_name]
             cells(c) == {df.rows[i][c] : i \in 1..NRows(df)}
             totext(c) == c \in DOMAIN dtypes /\ dtypes[c] = "string" /\ df.dtype[c] = "number"
             tonumber(c) ==
                 /\ c \in DOMAIN dtypes /\ dtypes[c] # "string" /\ df.dtype[c] = "string"
                 /\ \A x \in cells(c) \ {NA} : x[1] \in DOMAIN NumberText
                 /\ dtypes[c] = "Int64" => NA \notin cells(c)
             text(c, x) == IF NA \in cells(c) THEN ToString(x) \o ".0" ELSE ToString(x)
         IN  Table([c \in Cols(df) |->
                       IF totext(c) THEN "string"
                       ELSE IF tonumber(c) THEN "number"
                       ELSE df.dtype[c]],
                   [i \in 1..NRows(df) |->
                       [c \in Cols(df) |->
                           LET x == df.rows[i][c]
                           IN  IF x = NA THEN NA
                               ELSE IF totext(c) THEN V(text(c, x[1]))
                               ELSE IF tonumber(c) THEN V(NumberText[x[1]])
                               ELSE x]])

\* an extraction that does not validate the schema
extract_csv_unvalidated(file, dataset_name) ==
    IF file.state = "csv" THEN << apply_dtypes(file.df, dataset_name) >> ELSE <<>>

\* the table as a one-element tuple, or the empty tuple for None; file.df is the frame
\* pd.read_csv returns
extract_csv(file, dataset_name) ==
    IF file.state # "csv" THEN <<>>
    ELSE IF ~ validate_schema(file.df, dataset_name) THEN <<>>
    ELSE << apply_dtypes(file.df, dataset_name) >>

extract_all(data_dir) ==
    IF ~ data_dir.exists THEN <<>>
    ELSE [n \in {m \in Names : extract_csv(data_dir.files[m], m) # <<>>} |->
             extract_csv(data_dir.files[n], n)[1]]

\* the frame read from a good csv of dataset n: the base table of the model with the
\* columns of the schema it leaves out
CsvTable(n) ==
    LET extra ==
            [orders |-> [order_status |-> V("delivered"),
                         order_approved_at |-> V("2023-01-04 00:00:00")],
             order_reviews |-> [review_answer_timestamp |-> V("2023-01-10 00:00:00")],
             customers |-> [customer_zip_code_prefix |-> V(1000)],
             products |-> [product_name_lenght |-> V(10), product_description_lenght |-> V(10),
                           product_photos_qty |-> V(1), product_length_cm |-> V(10),
                           product_height_cm |-> V(10), product_width_cm |-> V(10)],
             sellers |-> [seller_zip_code_prefix |-> V(2000), seller_city |-> V("sao paulo")],
             geolocation |-> [geolocation_zip_code_prefix |-> V(1000),
                              geolocation_state |-> V("SP")]]
        base == BaseTables[n]
    IN  IF n \notin DOMAIN extra THEN base
        ELSE Table(base.dtype @@ [c \in DOMAIN extra[n] |->
                                     IF SCHEMAS[n][c] = "string" THEN "string" ELSE "number"],
                   [i \in 1..NRows(base) |-> base.rows[i] @@ extra[n]])

\* a csv of the dataset that lacks one of the expected columns
Truncated(n) ==
    Project(CsvTable(n), Cols(CsvTable(n)) \ {CHOOSE c \in SchemaColumns(n) : TRUE})

\* a csv of orders or sellers in which a textual column holds digits only, so that
\* pd.read_csv reads it as numbers (with a missing value in sellers)
Digits(n) ==
    LET t == CsvTable(n)
    IN  WithColumn(t, IF n = "sellers" THEN "seller_city" ELSE "order_status", "number",
                   [i \in 1..NRows(t) |-> IF i > 1 /\ n = "sellers" THEN NA ELSE V(7)])

BadFiles ==
    {File("empty", NoTable), File("unreadable", NoTable)}

\* a directory, existing or not, in which at most MaxAbsent files are missing
\* or at most MaxAbsent are there, and one file may be empty, unreadable, short
\* of a column, or hold digits in a textual column
RunEtlInit ==
    \E exists \in BOOLEAN, present \in SUBSET Names, bad \in SUBSET Names :
    \E how \in BadFiles \cup {File("csv", NoTable), File("digits", NoTable)} :
        /\ Cardinality(Names \ present) <= MaxAbsent \/ Cardinality(present) <= MaxAbsent
        /\ Cardinality(bad) <= 1
        /\ bad = {} => how.state = "csv"
        /\ how.state = "digits" => bad \subseteq {"orders", "sellers"}
        /\ input = [exists |-> exists,
                    files |-> [n \in Names |->
                                  IF n \in bad
                                  THEN (IF how.state = "csv" THEN File("csv", Truncated(n))
                                        ELSE IF how.state = "digits" THEN File("csv", Digits(n))
                                        ELSE how)
                                  ELSE IF n \in present THEN File("csv", CsvTable(n))
                                  ELSE File("missing", NoTable)]]
        /\ datasets = <<>>
        /\ transformed = <<>>
        /\ pc = "run_etl"
        /\ err = ""
        /\ calls = 0
        /\ first = <<>>

\* datasets = extract_all(data_dir)
ExtractAll ==
    /\ pc = "run_etl"
    /\ datasets' = extract_all(input)
    /\ Advance("extracted")
    /\ UNCHANGED <<input, transformed, calls, first>>

\* an extraction failure that is not noticed: the transformation is called
ExtractionFailedUnnoticed ==
    /\ pc = "extracted"
    /\ datasets = <<>>
    /\ calls' = calls + 1
    /\ Advance("standardize")
    /\ UNCHANGED <<input, datasets, transformed, first>>

\* if not datasets: return {}
ExtractionFailed ==
    /\ pc = "extracted"
    /\ datasets = <<>>
    /\ first' = <<>>
    /\ Advance("run_etl_returned")
    /\ UNCHANGED <<input, datasets, transformed, calls>>

\* transformed = transform_all(datasets)
CallTransformAll ==
    /\ pc = "extracted"
    /\ datasets # <<>>
    /\ calls' = calls + 1
    /\ transformed' = <<>>
    /\ Advance("standardize")
    /\ UNCHANGED <<input, datasets, first>>

\* if not transformed: return {}; ...; return transformed
RunEtlReturn ==
    /\ pc = "returned"
    /\ first' = IF transformed = <<>> THEN <<>> ELSE transformed
    /\ Advance("run_etl_returned")
    /\ UNCHANGED <<input, datasets, transformed, calls>>

RunEtlNext ==
    \/ ExtractAll
    \/ ExtractionFailed
    \/ CallTransformAll
    \/ StandardizeColumns
    \/ HandleMissingValues
    \/ ConvertDates
    \/ EnrichProducts
    \/ OrderMetrics
    \/ DeliveryMetrics
    \/ RecurringCustomers
    \/ ValidateGeolocation
    \/ FactTable
    \/ Return
    \/ RunEtlReturn

RunEtlSpec == RunEtlInit /\ [][RunEtlNext]_vars

(***************************************************************************)
(* load.py: DatabaseLoader and load_all.                                   *)
(*                                                                         *)
(* In LoadSpec the variables hold: input, the arguments of the load_all    *)
(* call in progress and the step at which the database server refuses a    *)
(* statement; datasets, the committed content of the database;             *)
(* transformed, the content as the open transaction of the connection sees *)
(* it; first, the connection of the loader; calls, the number of load_all  *)
(* calls so far.  A staging row is [pk, val, source]: its primary key, the *)
(* rest of its columns and its source tag.  A dimension is the sequence of *)
(* its natural keys (for geography the records of state, city and zip code *)
(* prefix), a surrogate key is the position in it (the gaps a SERIAL       *)
(* leaves are not modelled).  created_at, updated_at and load_timestamp    *)
(* are not modelled.                                                       *)
(***************************************************************************)
MaxLoads == 2

\* the tables created by create_staging_tables (two of the eight, which differ in
\* their columns only) and create_star_schema_tables, all empty
EmptyDatabase ==
    [staging |-> [t \in {"orders", "customers"} |-> {}],
     dims |-> [d \in {"time", "customers", "products", "sellers", "geography"} |-> <<>>],
     fact |-> {}]

StagingTables == DOMAIN EmptyDatabase.staging
DimNames == DOMAIN EmptyDatabase.dims

\* df_staging.drop_duplicates(subset=pk_cols, keep='first')
RECURSIVE drop_duplicates(_)
drop_duplicates(rows) ==
    IF rows = <<>> THEN <<>>
    ELSE LET init == drop_duplicates(SubSeq(rows, 1, Len(rows) - 1))
             last == rows[Len(rows)]
         IN  IF \E i \in 1..Len(init) : init[i].pk = last.pk THEN init ELSE Append(init, last)

\* the body of the loop of load_to_staging with the except clause swallowing the error
load_dataset_skip_failed(db, name, rows, faulty) ==
    LET df_staging == drop_duplicates(rows)
        kept == {r \in db.staging[name] : r.source # "csv"}
        values == {[pk |-> df_staging[i].pk, val |-> df_staging[i].val, source |-> "csv"] :
                       i \in 1..Len(df_staging)}
        rejected == faulty \/ \E r \in values : r.pk = NA \/ \E o \in kept : o.pk = r.pk
    IN  IF df_staging = <<>> \/ rejected THEN Ok(db)
        ELSE Ok([db EXCEPT !.staging[name] = kept \cup values])

\* the body of the loop of load_to_staging for one dataset of table_config, source 'csv':
\* DELETE the rows of the source, INSERT the batch; a null or taken primary key, or a
\* failing server, raises
load_dataset(db, name, rows, faulty) ==
    LET df_staging == drop_duplicates(rows)
        kept == {r \in db.staging[name] : r.source # "csv"}
        values == {[pk |-> df_staging[i].pk, val |-> df_staging[i].val, source |-> "csv"] :
                       i \in 1..Len(df_staging)}
        rejected == faulty \/ \E r \in values : r.pk = NA \/ \E o \in kept : o.pk = r.pk
    IN  IF df_staging = <<>> THEN Ok(db)
        ELSE IF rejected THEN Raise(IF faulty THEN "OperationalError" ELSE "IntegrityError")
        ELSE Ok([db EXCEPT !.staging[name] = kept \cup values])

\* the natural keys the loader of dimension d reads from the transformed mapping
\* (empty when load_analytics does not call the loader); load_dim_geography reads
\* state, city and zip code prefix of customers and sellers, a missing value filled with 0
dim_values(d, t) ==
    LET has(n) == n \in DOMAIN t
        col(n, c) == [i \in 1..Len(t[n]) |-> t[n][i][c]]
        geo(n, p) == [i \in 1..Len(t[n]) |->
                         LET x(c) == t[n][i][p \o c]
                         IN  [state |-> IF x("_state") = NA THEN "0" ELSE x("_state")[1],
                              city |-> IF x("_city") = NA THEN "0" ELSE x("_city")[1],
                              zip |-> IF x("_zip_code_prefix") = NA THEN 0
                                      ELSE x("_zip_code_prefix")[1]]]
    IN  CASE d = "time" -> IF has("orders") THEN col("orders", "order_date") ELSE <<>>
          [] d = "customers" -> IF has("customers") THEN col("customers", "customer_id") ELSE <<>>
          [] d = "products" -> IF has("products") THEN col("products", "product_id") ELSE <<>>
          [] d = "sellers" -> IF has("sellers") THEN col("sellers", "seller_id") ELSE <<>>
          [] d = "geography" -> IF has("customers") /\ has("sellers")
                                THEN geo("customers", "customer") \o geo("sellers", "seller")
                                ELSE <<>>

\* INSERT ... ON CONFLICT (natural key) DO NOTHING / DO UPDATE, row by row: a key that is
\* in the dimension keeps its surrogate key
RECURSIVE insert_keys(_, _)
insert_keys(dim, keys) ==
    IF keys = <<>> THEN dim
    ELSE insert_keys(IF \E i \in 1..Len(dim) : dim[i] = Head(keys) THEN dim
                     ELSE Append(dim, Head(keys)), Tail(keys))

\* SELECT <surrogate key> FROM <dimension> WHERE <natural key> = k, mapped on the column.
\* A missing customer, product or seller id is not looked up (dropna) and maps to no
\* key; a missing date is sent to the server, which refuses it (load_fact_orders), so
\* the time lookup is answered for the dates that are present only.
lookup_key(dim, k) ==
    IF \E i \in 1..Len(dim) : dim[i] = k
    THEN V(CHOOSE i \in 1..Len(dim) : dim[i] = k)
    ELSE NA

\* the geography lookup for a fact row: str(value or '') of state and city, no lookup
\* if one of them is empty, else SELECT geography_key ... WHERE state = %s AND
\* city = %s LIMIT 1, which may answer any of the rows of the city.  `missing` is the
\* missing value of the columns: "nan" (NaN, object columns) is true and prints as
\* 'nan'; "NA" (pd.NA, StringDtype columns) has no truth value and `or` raises.
geography_keys(dim, r, missing) ==
    LET str(x) == IF x = NA THEN "nan" ELSE x[1]
        state == str(r.customer_state)
        city == str(r.customer_city)
        found == {i \in 1..Len(dim) : dim[i].state = state /\ dim[i].city = city}
    IN  IF missing = "NA" /\ (r.customer_state = NA \/ r.customer_city = NA)
        THEN Raise("TypeError")
        ELSE IF state = "" \/ city = "" \/ found = {} THEN Ok({NA})
        ELSE Ok({V(i) : i \in found})

\* the tuple load_fact_orders inserts for a row of the fact table, g the geography key
fact_row(db, r, g) ==
    [order_id |-> r.order_id,
     time_id |-> lookup_key(db.dims["time"], r.order_date),
     customer_key |-> lookup_key(db.dims["customers"], r.customer_id),
     product_key |-> lookup_key(db.dims["products"], r.main_product_id),
     seller_key |-> lookup_key(db.dims["sellers"], r.main_seller_id),
     geography_key |-> g,
     order_total_value |-> r.order_total_value]

\* INSERT ... ON CONFLICT (order_id) DO UPDATE SET every column
fact_upsert(fact, new) ==
    {x \in fact : x.order_id # new.order_id} \cup {new}

\* load_fact_orders: the keys are looked up, then the rows are upserted one by one.
\* The outcomes it may have: the database it leaves, one for each choice of the
\* geography keys, or the error of a lookup; the lookups of all rows come before the
\* first INSERT, so an error in any row is the only outcome and nothing is written.
\* The time lookup comes first and has no dropna: a missing order_date (NaT) is sent
\* as the parameter of the SELECT, and the statement fails (psycopg2 adapts NaT as a
\* datetime, and the server has no timestamp 'NaT': DataError, a psycopg2.Error).
RECURSIVE load_fact_orders(_, _, _)
load_fact_orders(db, rows, missing) ==
    IF \E i \in 1..Len(rows) : rows[i].order_date = NA THEN {Raise("psycopg2.Error")}
    ELSE IF rows = <<>> THEN {Ok(db)}
    ELSE LET keys == geography_keys(db.dims["geography"], Head(rows), missing)
         IN  IF ~ keys.ok THEN {keys}
             ELSE UNION { load_fact_orders(
                              [db EXCEPT !.fact = fact_upsert(@, fact_row(db, Head(rows), g))],
                              Tail(rows), missing) :
                          g \in keys.df }

\* the steps of load_all, those of load_analytics in its place
load_all_steps ==
    << "connect", "create_schemas", "create_staging_tables", "create_star_schema_tables",
       "load_to_staging",
       "load_dim_time", "load_dim_customers", "load_dim_products", "load_dim_sellers",
       "load_dim_geography", "load_fact_orders" >>

\* the step after step s; after the last one the finally clause
After(s) ==
    LET i == CHOOSE j \in 1..Len(load_all_steps) : load_all_steps[j] = s
    IN  IF i = Len(load_all_steps) THEN "finally" ELSE load_all_steps[i + 1]

\* the arguments of load_all: the raw datasets, the transformed mapping, the missing
\* value of its textual columns (pd.NA in the StringDtype columns that apply_dtypes
\* makes, NaN in object columns), and the step whose statement the server refuses
LoadArgs ==
    LET Row(k, v) == [pk |-> k, val |-> v]
        Batches == { <<>>,
                     << Row(V("k1"), "a") >>,
                     << Row(V("k1"), "a"), Row(V("k1"), "b") >>,
                     << Row(V("k2"), "b"), Row(V("k1"), "a") >>,
                     << Row(NA, "a") >> }
        Raw(b1, b2) == << [name |-> "orders", rows |-> b1],
                          [name |-> "category_translation", rows |-> << Row(V("t1"), "a") >>],
                          [name |-> "customers", rows |-> b2] >>
        Tables == [orders |-> << [order_date |-> V("d1")] >>,
                   customers |-> << [customer_id |-> V("c1"), customer_state |-> V("SP"),
                                     customer_city |-> V("sao paulo"),
                                     customer_zip_code_prefix |-> V(1000)] >>,
                   products |-> << [product_id |-> V("p1")] >>,
                   sellers |-> << [seller_id |-> V("s1"), seller_state |-> V("SP"),
                                   seller_city |-> V("sao paulo"),
                                   seller_zip_code_prefix |-> V(2000)] >>]
        FactRow(o, c, p, city, v) ==
            [order_id |-> o, order_date |-> V("d1"), customer_id |-> V(c),
             customer_state |-> IF city = NA THEN NA ELSE V("SP"), customer_city |-> city,
             main_product_id |-> p, main_seller_id |-> V("s1"), order_total_value |-> v]
        sp == V("sao paulo")
        FactBatches == { << FactRow("o1", "c1", V("p1"), sp, 1) >>,
                         << FactRow("o1", "c1", V("p1"), sp, 2) >>,
                         << FactRow("o1", "c2", NA, NA, 1), FactRow("o2", "c1", V("p1"), sp, 2) >>,
                         << FactRow("o1", "c1", V("p1"), sp, 1),
                            FactRow("o1", "c1", V("p1"), V(""), 2) >>,
                         << FactRow("o1", "c2", NA, NA, 1),
                            [FactRow("o2", "c1", V("p1"), sp, 2) EXCEPT !.order_date = NA] >> }
        Mapping(present, fact) ==
            [n \in present \cup (IF fact = <<>> THEN {} ELSE {"fact_orders"}) |->
                 IF n = "fact_orders" THEN fact ELSE Tables[n]]
        Present == { DOMAIN Tables, {}, {"orders", "customers", "products"},
                     {"customers", "sellers"} }
        b0 == << Row(V("k1"), "a") >>
        t0 == Mapping(DOMAIN Tables, << FactRow("o1", "c1", V("p1"), sp, 1) >>)
    IN  { [datasets |-> Raw(b1, b2), transformed |-> t0, missing |-> "NA", fault |-> "none"] :
              b1 \in Batches, b2 \in Batches }
        \cup { [datasets |-> Raw(b0, b0), transformed |-> Mapping(p, f), missing |-> m,
                fault |-> "none"] :
                   p \in Present, f \in FactBatches \cup {<<>>}, m \in {"NA", "nan"} }
        \cup { [datasets |-> Raw(b0, b0), transformed |-> t0, missing |-> "NA",
                fault |-> load_all_steps[i]] :
                   i \in 1..Len(load_all_steps) }

\* DatabaseLoader(connection_params): self.conn = None
LoadInit ==
    /\ input \in LoadArgs
    /\ datasets = EmptyDatabase
    /\ transformed = EmptyDatabase
    /\ pc = "connect"
    /\ err = ""
    /\ calls = 1
    /\ first = [conn |-> "none", closes |-> 0, i |-> 1]

\* loader.connect()
Connect ==
    /\ pc = "connect"
    /\ IF input.fault = pc
       THEN pc' = "except" /\ err' = "OperationalError" /\ first' = first
       ELSE pc' = After(pc) /\ err' = err /\ first' = [first EXCEPT !.conn = "open"]
    /\ UNCHANGED <<input, datasets, transformed, calls>>

\* loader.create_schemas()
CreateSchemas ==
    /\ pc = "create_schemas"
    /\ IF input.fault = pc
       THEN pc' = "except" /\ err' = "OperationalError"
       ELSE pc' = After(pc) /\ err' = err
    /\ UNCHANGED <<input, datasets, transformed, calls, first>>

\* loader.create_staging_tables()
CreateStagingTables ==
    /\ pc = "create_staging_tables"
    /\ IF input.fault = pc
       THEN pc' = "except" /\ err' = "OperationalError"
       ELSE pc' = After(pc) /\ err' = err
    /\ UNCHANGED <<input, datasets, transformed, calls, first>>

\* loader.create_star_schema_tables()
CreateStarSchemaTables ==
    /\ pc = "create_star_schema_tables"
    /\ IF input.fault = pc
       THEN pc' = "except" /\ err' = "OperationalError"
       ELSE pc' = After(pc) /\ err' = err
    /\ UNCHANGED <<input, datasets, transformed, calls, first>>

\* loader.load_to_staging(datasets, source='csv'): one turn of its loop over the
\* mapping, position first.i.  A dataset without a staging table is passed over; a
\* loaded dataset is committed in its turn; on an error the rollback leaves the
\* committed content and the error is raised again.
LoadToStaging ==
    /\ pc = "load_to_staging"
    /\ IF first.i > Len(input.datasets)
       THEN pc' = After(pc) /\ err' = err /\ UNCHANGED <<datasets, transformed, first>>
       ELSE LET item == input.datasets[first.i]
                r == load_dataset(transformed, item.name, item.rows, input.fault = pc)
            IN  IF item.name \notin StagingTables
                THEN /\ pc' = pc /\ err' = err
                     /\ first' = [first EXCEPT !.i = @ + 1]
                     /\ UNCHANGED <<datasets, transformed>>
                ELSE IF r.ok
                THEN /\ pc' = pc /\ err' = err
                     /\ first' = [first EXCEPT !.i = @ + 1]
                     /\ datasets' = r.df /\ transformed' = r.df
                ELSE /\ pc' = "except" /\ err' = r.err
                     /\ first' = first
                     /\ datasets' = datasets /\ transformed' = datasets
    /\ UNCHANGED <<input, calls>>

\* load_analytics: load_dim_time, load_dim_customers, load_dim_products, load_dim_sellers
\* and load_dim_geography, each under its `if ... in transformed` and with its own commit
LoadDimension ==
    \E d \in DimNames :
        /\ pc = "load_dim_" \o d
        /\ LET keys == dim_values(d, input.transformed)
               db == [transformed EXCEPT !.dims[d] = insert_keys(@, keys)]
           IN  IF keys # <<>> /\ input.fault = pc
               THEN pc' = "except" /\ err' = "OperationalError"
                    /\ UNCHANGED <<datasets, transformed>>
               ELSE pc' = After(pc) /\ err' = err /\ datasets' = db /\ transformed' = db
        /\ UNCHANGED <<input, calls, first>>

\* load_analytics: load_fact_orders under `if 'fact_orders' in transformed`; a statement
\* the server refuses leaves the upserts in the open transaction, uncommitted; an error
\* of a lookup leaves nothing
LoadFactOrders ==
    /\ pc = "load_fact_orders"
    /\ IF "fact_orders" \notin DOMAIN input.transformed
       THEN pc' = After(pc) /\ err' = err /\ UNCHANGED <<datasets, transformed>>
       ELSE \E r \in load_fact_orders(transformed, input.transformed["fact_orders"],
                                      input.missing) :
                IF input.fault = pc
                THEN /\ pc' = "except" /\ err' = "OperationalError"
                     /\ transformed' = (IF r.ok THEN r.df ELSE transformed)
                     /\ datasets' = datasets
                ELSE IF ~ r.ok
                THEN pc' = "except" /\ err' = r.err /\ UNCHANGED <<datasets, transformed>>
                ELSE pc' = After(pc) /\ err' = err /\ transformed' = r.df /\ datasets' = r.df
    /\ UNCHANGED <<input, calls, first>>

\* the except clause of load_all leaving the function without the finally clause
ExceptWithoutFinally ==
    /\ pc = "except"
    /\ pc' = "raised"
    /\ UNCHANGED <<input, datasets, transformed, err, calls, first>>

\* except Exception as e: logger.error(...); raise
Except ==
    /\ pc = "except"
    /\ pc' = "finally"
    /\ UNCHANGED <<input, datasets, transformed, err, calls, first>>

\* finally: loader.close(), which closes self.conn if there is one; what the transaction
\* had not committed is gone
Close ==
    /\ pc = "finally"
    /\ first' = IF first.conn = "open"
                THEN [first EXCEPT !.conn = "closed", !.closes = @ + 1]
                ELSE first
    /\ transformed' = datasets
    /\ pc' = IF err = "" THEN "returned" ELSE "raised"
    /\ UNCHANGED <<input, datasets, err, calls>>

\* the next load_all call, with a new loader, on the same database
LoadAllAgain ==
    /\ pc \in {"returned", "raised"}
    /\ calls < MaxLoads
    /\ input' \in LoadArgs
    /\ pc' = "connect"
    /\ err' = ""
    /\ calls' = calls + 1
    /\ first' = [conn |-> "none", closes |-> 0, i |-> 1]
    /\ UNCHANGED <<datasets, transformed>>

LoadNext ==
    \/ Connect
    \/ CreateSchemas
    \/ CreateStagingTables
    \/ CreateStarSchemaTables
    \/ LoadToStaging
    \/ LoadDimension
    \/ LoadFactOrders
    \/ Except
    \/ Close
    \/ LoadAllAgain

LoadSpec == LoadInit /\ [][LoadNext]_vars

(***************************************************************************)
(* Properties.  The operators of this part state what a table should hold  *)
(* directly from the rows, not through the operators of the model.         *)
(***************************************************************************)
Idx(t) == 1..NRows(t)
Returned(n) == pc = "returned" /\ n \in DOMAIN transformed
CellsOf(t, c) == {t.rows[i][c] : i \in Idx(t)}

RECURSIVE SumIdx(_, _, _)
\* the sum of the present cells of column c over the rows I of t
SumIdx(t, I, c) ==
    IF I = {} THEN 0
    ELSE LET i == CHOOSE j \in I : TRUE
         IN (IF t.rows[i][c] = NA THEN 0 ELSE t.rows[i][c][1]) + SumIdx(t, I \ {i}, c)

UniqueKey(t, key) ==
    \A i, j \in Idx(t) : (\A c \in key : t.rows[i][c] = t.rows[j][c]) => i = j

UniqueKeys(m) ==
    /\ UniqueKey(m["orders"], {"order_id"})
    /\ UniqueKey(m["order_items"], {"order_id", "order_item_id"})
    /\ UniqueKey(m["order_payments"], {"order_id", "payment_sequential"})
    /\ UniqueKey(m["order_reviews"], {"review_id"})
    /\ UniqueKey(m["customers"], {"customer_id"})
    /\ UniqueKey(m["products"], {"product_id"})
    /\ UniqueKey(m["sellers"], {"seller_id"})

\* C1: the fact table built from the seven required tables, supplied with
\* unique keys, has exactly one row per order_id of orders; an order without
\* items, payments or reviews keeps its row, with the measures of the
\* missing aggregate as "no value", and no order appears twice.
C1_OneFactRowPerOrder ==
    (Returned("fact_orders") /\ UniqueKeys(input)) =>
        LET fact == transformed["fact_orders"]
            orders == transformed["orders"]
            has(n, k) == k \in CellsOf(transformed[n], "order_id")
        IN /\ required_for_fact \subseteq DOMAIN input
           /\ NRows(fact) = Cardinality(CellsOf(orders, "order_id"))
           /\ \A i \in Idx(orders) :
                 Cardinality({j \in Idx(fact) :
                     fact.rows[j]["order_id"] = orders.rows[i]["order_id"]}) = 1
           /\ \A j \in Idx(fact) :
                 LET r == fact.rows[j]
                 IN /\ r["order_id"] \in CellsOf(orders, "order_id")
                    /\ ~ has("order_items", r["order_id"]) =>
                           /\ IsNA(r["order_total_value"])
                           /\ IsNA(r["order_items_count"])
                           /\ IsNA(r["main_seller_id"])
                    /\ ~ has("order_payments", r["order_id"]) =>
                           /\ IsNA(r["total_payment_value"])
                           /\ IsNA(r["payment_types"])
                    /\ ~ has("order_reviews", r["order_id"]) =>
                           /\ IsNA(r["avg_review_score"])
                           /\ IsNA(r["has_review_comment"])

\* a returned fact table with an order that has no item, no payment and no review
C1_Witness ==
    /\ Returned("fact_orders")
    /\ \E j \in Idx(transformed["fact_orders"]) :
          LET r == transformed["fact_orders"].rows[j]
          IN /\ IsNA(r["order_total_value"])
             /\ IsNA(r["total_payment_value"])
             /\ IsNA(r["avg_review_score"])

\* C2: for every subset of the nine canonical datasets, each with its
\* expected columns, transform_all on the raw mapping completes without raising.
C2_NeverRaises == calls = 1 => pc # "raised"

\* C3: a second transform_all on the same mapping object succeeds and returns
\* tables identical to the ones the first run returned.
C3_SecondRunIdentical ==
    (calls = 2 /\ pc \in {"returned", "raised"}) =>
        (pc = "returned" /\ transformed = first)

FirstIndex(cs, v) == CHOOSE i \in 1..Len(cs) : cs[i] = v /\ \A j \in 1..(i - 1) : cs[j] # v

\* the most frequent value, ties going to the value met first in row order
FirstSeenMode(cs) ==
    CHOOSE v \in SeqToSet(cs) : \A w \in SeqToSet(cs) :
        \/ CountOf(cs, v) > CountOf(cs, w)
        \/ CountOf(cs, v) = CountOf(cs, w) /\ FirstIndex(cs, v) <= FirstIndex(cs, w)

\* C4: for every order with items, main_seller_id and main_product_id are the
\* most frequent value among the order's item rows, ties resolved to the
\* value whose first occurrence is earliest in input row order.
C4_FirstSeenTieBreak ==
    Returned("fact_orders") =>
        LET fact == transformed["fact_orders"]
            items == transformed["order_items"]
        IN \A j \in Idx(fact) :
              LET g == SelectSeq(items.rows,
                                 LAMBDA r : r["order_id"] = fact.rows[j]["order_id"])
              IN g # <<>> =>
                    /\ fact.rows[j]["main_seller_id"]
                           = FirstSeenMode(GroupColumn(g, "seller_id"))
                    /\ fact.rows[j]["main_product_id"]
                           = FirstSeenMode(GroupColumn(g, "product_id"))

\* C5: the names of the mapping transform_all returns are the input names,
\* plus order_metrics iff order_items was supplied, plus fact_orders iff all
\* seven required tables were supplied; with only orders and customers the
\* customers come back with total_orders and is_recurring_customer.
C5_OutputNames ==
    pc = "returned" =>
        /\ DOMAIN transformed =
               DOMAIN input
               \cup (IF "order_items" \in DOMAIN input THEN {"order_metrics"} ELSE {})
               \cup (IF {"orders", "order_items", "order_payments", "order_reviews",
                         "customers", "products", "sellers"} \subseteq DOMAIN input
                     THEN {"fact_orders"} ELSE {})
        /\ DOMAIN input = {"orders", "customers"} =>
               {"total_orders", "is_recurring_customer"}
                   \subseteq Cols(transformed["customers"])

\* the run on orders and customers alone has returned
C5_Witness ==
    /\ pc = "returned"
    /\ DOMAIN input = {"orders", "customers"}
    /\ "total_orders" \in Cols(transformed["customers"])
    /\ "fact_orders" \notin DOMAIN transformed

PaymentColumns == {"total_payment_value", "payment_types", "max_installments"}

\* C6 as stated: with order_payments absent and the six other required
\* tables present, the fact table is still produced, without the payment columns.
C6_FactWithoutPayments ==
    (pc = "returned" /\ calls = 1
       /\ DOMAIN input \cap required_for_fact = required_for_fact \ {"order_payments"}) =>
        /\ "fact_orders" \in DOMAIN transformed
        /\ Cols(transformed["fact_orders"]) \cap PaymentColumns = {}

\* C6 as amended: when a required table of the fact table is missing, the
\* run on the raw mapping does not raise and its result holds no fact table.
C6_NoFactWhenRequiredMissing ==
    (calls = 1 /\ ~ ({"orders", "order_items", "order_payments", "order_reviews",
                      "customers", "products", "sellers"} \subseteq DOMAIN input)) =>
        /\ pc # "raised"
        /\ "fact_orders" \notin DOMAIN transformed

\* the run without order_payments has returned its other tables
C6_Witness ==
    /\ pc = "returned"
    /\ calls = 1
    /\ DOMAIN input = Names \ {"order_payments"}
    /\ "order_metrics" \in DOMAIN transformed
    /\ "fact_orders" \notin DOMAIN transformed

\* C7 as stated: the table calculate_order_metrics returns has exactly one row per
\* distinct order_id of the order items it was computed from, with the sums of price
\* and freight, order_items_count = the number of item rows of the order, and
\* order_total_value = price total + freight total.
C7_OrderMetrics ==
    "order_metrics" \in DOMAIN transformed =>
        LET items == datasets["order_items"]
            metrics == transformed["order_metrics"]
            ids == CellsOf(items, "order_id") \ {NA}
            of(k) == {i \in Idx(items) : items.rows[i]["order_id"] = k}
        IN /\ CellsOf(metrics, "order_id") = ids
           /\ NRows(metrics) = Cardinality(ids)
           /\ \A j \in Idx(metrics) :
                 LET r == metrics.rows[j]
                     I == of(r["order_id"])
                 IN /\ I # {}
                    /\ r["order_items_total_price"] = V(SumIdx(items, I, "price"))
                    /\ r["order_items_total_freight"] = V(SumIdx(items, I, "freight_value"))
                    /\ r["order_items_count"] = V(Cardinality(I))
                    /\ r["order_total_value"] =
                           V(SumIdx(items, I, "price") + SumIdx(items, I, "freight_value"))

\* C7, amended: the same, with order_items_count = the number of item rows of the
\* order that have a product_id (count(product_id) skips the missing ones).
C7_OrderMetricsCountsProducts ==
    "order_metrics" \in DOMAIN transformed =>
        LET items == datasets["order_items"]
            metrics == transformed["order_metrics"]
            ids == CellsOf(items, "order_id") \ {NA}
            of(k) == {i \in Idx(items) : items.rows[i]["order_id"] = k}
        IN /\ CellsOf(metrics, "order_id") = ids
           /\ NRows(metrics) = Cardinality(ids)
           /\ \A j \in Idx(metrics) :
                 LET r == metrics.rows[j]
                     I == of(r["order_id"])
                 IN /\ I # {}
                    /\ r["order_items_total_price"] = V(SumIdx(items, I, "price"))
                    /\ r["order_items_total_freight"] = V(SumIdx(items, I, "freight_value"))
                    /\ r["order_items_count"] =
                           V(Cardinality({i \in I : NotNA(items.rows[i]["product_id"])}))
                    /\ r["order_total_value"] =
                           V(SumIdx(items, I, "price") + SumIdx(items, I, "freight_value"))

\* a direct call on an order with two item rows, one of which has no product_id:
\* the order is counted with one item
C7_Witness ==
    /\ pc = "calculate_order_metrics"
    /\ "order_metrics" \in DOMAIN transformed
    /\ LET items == datasets["order_items"]
           I == {i \in Idx(items) : items.rows[i]["order_id"] = V("o1")}
       IN  /\ Cardinality(I) = 2
           /\ Cardinality({i \in I : IsNA(items.rows[i]["product_id"])}) = 1
           /\ \E j \in Idx(transformed["order_metrics"]) :
                  /\ transformed["order_metrics"].rows[j]["order_id"] = V("o1")
                  /\ transformed["order_metrics"].rows[j]["order_items_count"] = V(1)

\* the instant a raw date cell stands for, NA when it is missing or no date
Instant(cell) ==
    IF cell # NA /\ cell[1] \in DOMAIN DateValue THEN V(DateValue[cell[1]]) ELSE NA

\* n is the whole number of days (floor) from instant b to instant a
WholeDays(n, a, b) == 2 * n <= a[1] - b[1] /\ a[1] - b[1] < 2 * (n + 1)

Enriched == "orders" \in DOMAIN datasets /\ "delivery_time_days" \in Cols(datasets["orders"])

\* C8: delivery_time_days is the floor of the days from purchase to delivery
\* when both dates are present and the number is in 0..365, "no value"
\* otherwise; every order keeps its row.
C8_DeliveryTime ==
    Enriched =>
        /\ NRows(datasets["orders"]) = NRows(input["orders"])
        /\ \A i \in Idx(input["orders"]) :
              LET p == Instant(input["orders"].rows[i]["order_purchase_timestamp"])
                  d == Instant(input["orders"].rows[i]["order_delivered_customer_date"])
                  days == datasets["orders"].rows[i]["delivery_time_days"]
              IN /\ datasets["orders"].rows[i]["order_id"] = input["orders"].rows[i]["order_id"]
                 /\ IF IsNA(p) \/ IsNA(d) THEN IsNA(days)
                    ELSE \E n \in -500..500 :
                            /\ WholeDays(n, d, p)
                            /\ days = IF 0 <= n /\ n <= 365 THEN V(n) ELSE NA

\* an order delivered 365 days and 12 hours after its purchase keeps 365
C8_Witness ==
    /\ Enriched
    /\ pc = "returned"
    /\ \E i \in Idx(input["orders"]) :
          /\ input["orders"].rows[i]["order_purchase_timestamp"] = V("2023-01-04 00:00:00")
          /\ input["orders"].rows[i]["order_delivered_customer_date"] = V("2024-01-04 12:00:00")
          /\ datasets["orders"].rows[i]["delivery_time_days"] = V(365)

\* C9: delivery_delay_days is the floor of the days from the estimated date
\* to the delivery, negative and large values kept, "no value" only when one
\* of the two dates is absent.
C9_DeliveryDelay ==
    Enriched =>
        \A i \in Idx(input["orders"]) :
            LET e == Instant(input["orders"].rows[i]["order_estimated_delivery_date"])
                d == Instant(input["orders"].rows[i]["order_delivered_customer_date"])
                delay == datasets["orders"].rows[i]["delivery_delay_days"]
            IN IF IsNA(e) \/ IsNA(d) THEN IsNA(delay)
               ELSE \E n \in -500..500 : WholeDays(n, d, e) /\ delay = V(n)

\* an order delivered more than a year after the estimate keeps its delay
C9_Witness ==
    /\ Enriched
    /\ pc = "returned"
    /\ \E i \in Idx(datasets["orders"]) :
          /\ NotNA(datasets["orders"].rows[i]["delivery_delay_days"])
          /\ datasets["orders"].rows[i]["delivery_delay_days"][1] > 365

Classified ==
    /\ {"orders", "customers"} \subseteq DOMAIN datasets
    /\ "total_orders" \in Cols(datasets["customers"])

DerivedNames == {"order_metrics", "fact_orders"}

\* C11: every order_id of order_metrics and of fact_orders returned by
\* transform_all is an order_id of the orders table the caller supplied,
\* also when order_items holds items of an order that orders does not hold.
C11_DerivedKeysInOrders ==
    \A n \in DerivedNames :
        (/\ Returned(n) /\ calls = 1
         /\ {"orders", "order_items"} \subseteq DOMAIN input
         /\ NA \notin CellsOf(input["order_items"], "order_id"))
            => CellsOf(transformed[n], "order_id") \subseteq CellsOf(input["orders"], "order_id")

(***************************************************************************)
(* Category enrichment                                                     *)
(***************************************************************************)
\* the non-missing translations category_translation holds for a category
TranslationsOf(tr, category) ==
    {tr.rows[j]["product_category_name_english"] :
        j \in {k \in Idx(tr) : tr.rows[k]["product_category_name"] = category}} \ {NA}

\* C12: after enrich_products every product row has a non-missing
\* product_category_name_english; with unique translation keys the table keeps
\* exactly its rows and the column is the translation of the row's category
\* when category_translation has one, otherwise the product's own category
\* name, otherwise 'unknown'.
C12_EnrichedCategory ==
    pc = "enrich_products" =>
        LET p == input["products"]
            tr == input["category_translation"]
            out == transformed["products"]
        IN /\ \A i \in Idx(out) : NotNA(out.rows[i]["product_category_name_english"])
           /\ UniqueKey(tr, {"product_category_name"}) =>
                /\ NRows(out) = NRows(p)
                /\ \A i \in Idx(p) :
                     LET category == p.rows[i]["product_category_name"]
                     IN /\ \A c \in Cols(p) : out.rows[i][c] = p.rows[i][c]
                        /\ out.rows[i]["product_category_name_english"] =
                             IF TranslationsOf(tr, category) # {}
                             THEN CHOOSE e \in TranslationsOf(tr, category) : TRUE
                             ELSE IF NotNA(category) THEN category
                             ELSE V("unknown")

\* a translated product next to one without a category, and a product that
\* keeps its own category name
C12_Witness ==
    /\ pc = "enrich_products"
    /\ UniqueKey(input["category_translation"], {"product_category_name"})
    /\ NRows(transformed["products"]) = 2
    /\ input["products"].rows[1]["product_category_name"] = V("toy")
    /\ transformed["products"].rows[1]["product_category_name_english"] = V("toy")
    /\ input["products"].rows[2]["product_category_name"] = NA
    /\ transformed["products"].rows[2]["product_category_name_english"] = V("unknown")
    /\ NRows(input["category_translation"]) = 2

(***************************************************************************)
(* Review comments                                                         *)
(***************************************************************************)
\* the rows of a table that belong to an order
RowsOfOrder(t, o) == {j \in Idx(t) : t.rows[j]["order_id"] = o}

\* C13: in the fact table of transform_all, has_review_comment of an order
\* that has reviews is true exactly when one of its reviews has a non-missing
\* review_comment_message in the input order_reviews table, and false when
\* all its reviews lack one.
C13_HasReviewComment ==
    (Returned("fact_orders") /\ calls = 1) =>
        \A i \in Idx(transformed["fact_orders"]) :
            LET reviews == input["order_reviews"]
                mine == RowsOfOrder(reviews, transformed["fact_orders"].rows[i]["order_id"])
            IN mine # {} =>
                 transformed["fact_orders"].rows[i]["has_review_comment"] =
                     V(\E j \in mine : NotNA(reviews.rows[j]["review_comment_message"]))

(***************************************************************************)
(* Missing values                                                          *)
(***************************************************************************)
DeliveryDateColumns == {"order_delivered_carrier_date", "order_delivered_customer_date"}
CommentColumns == {"review_comment_title", "review_comment_message"}

\* C14: for the orders dataset handle_missing_values leaves every missing
\* delivery date missing, whether the column is text or date-time.
C14_DeliveryDatesLeftMissing ==
    (pc = "handle_missing_values" /\ "orders" \in DOMAIN input) =>
        \A i \in Idx(input["orders"]) : \A c \in DeliveryDateColumns :
            IsNA(input["orders"].rows[i][c]) => IsNA(transformed["orders"].rows[i][c])

\* what a missing cell of a textual column is replaced by
DefaultText(n, c) ==
    IF n = "order_reviews" /\ c \in CommentColumns THEN V("") ELSE V("unknown")

\* C15: after handle_missing_values no textual column holds a missing value:
\* a missing review comment title or message is the empty string, every other
\* missing text (a missing product_category_name included) is 'unknown',
\* present values are kept, and the cells of the other columns, missing or
\* not, are left as they were.
C15_NoMissingText ==
    pc = "handle_missing_values" =>
        \A n \in DOMAIN input :
            /\ transformed[n].dtype = input[n].dtype
            /\ NRows(transformed[n]) = NRows(input[n])
            /\ \A i \in Idx(input[n]) : \A c \in Cols(input[n]) :
                 transformed[n].rows[i][c] =
                     IF input[n].dtype[c] = "string" /\ IsNA(input[n].rows[i][c])
                     THEN DefaultText(n, c)
                     ELSE input[n].rows[i][c]

\* a review without comment message, without review id and without score
C15_Witness ==
    /\ pc = "handle_missing_values"
    /\ "order_reviews" \in DOMAIN input
    /\ input["order_reviews"].rows[1]["review_comment_message"] = NA
    /\ input["order_reviews"].rows[1]["review_score"] = NA
    /\ input["order_reviews"].rows[2]["review_id"] = NA
    /\ transformed["order_reviews"].rows[1]["review_comment_message"] = V("")
    /\ transformed["order_reviews"].rows[1]["review_score"] = NA
    /\ transformed["order_reviews"].rows[2]["review_id"] = V("unknown")

\* C16 as stated: for a dataset name that is none of the recognized names
\* handle_missing_values raises nothing and returns the table unchanged,
\* missing values included.
C16_UnknownNameUnchanged ==
    pc = "handle_missing_values" =>
        /\ err = ""
        /\ \A n \in DOMAIN input \ Names : transformed[n] = input[n]

\* C16 amended: for a dataset name that is none of the recognized names
\* handle_missing_values raises nothing and applies the generic rule alone:
\* same columns and rows, a missing cell of a textual column is 'unknown'
\* whatever the column is called, every other cell is unchanged.
C16_UnknownNameGenericRule ==
    pc = "handle_missing_values" =>
        /\ err = ""
        /\ \A n \in DOMAIN input \ Names :
             /\ transformed[n].dtype = input[n].dtype
             /\ NRows(transformed[n]) = NRows(input[n])
             /\ \A i \in Idx(input[n]) : \A c \in Cols(input[n]) :
                  transformed[n].rows[i][c] =
                      IF input[n].dtype[c] = "string" /\ IsNA(input[n].rows[i][c])
                      THEN V("unknown")
                      ELSE input[n].rows[i][c]

\* an unknown dataset with a missing text and a missing number
C16_Witness ==
    /\ pc = "handle_missing_values"
    /\ "extra" \in DOMAIN input
    /\ input["extra"].rows[1]["review_comment_message"] = NA
    /\ input["extra"].rows[1]["amount"] = NA
    /\ transformed["extra"].rows[1]["review_comment_message"] = V("unknown")
    /\ transformed["extra"].rows[1]["amount"] = NA

(***************************************************************************)
(* Geolocation                                                             *)
(***************************************************************************)
\* latitude in [-33, 5] and longitude in [-73, -32], a missing one being outside
InBrazil(lat, lng) ==
    /\ NotNA(lat) /\ -33 <= lat[1] /\ lat[1] <= 5
    /\ NotNA(lng) /\ -73 <= lng[1] /\ lng[1] <= -32

\* C20: validate_geolocation sets is_valid_coordinate to true exactly for the
\* rows whose latitude lies in [-33, 5] and longitude in [-73, -32], bounds
\* included, and to false for every other row, a missing coordinate included;
\* it keeps every row, in order, and changes no other column.
C20_ValidCoordinate ==
    pc = "validate_geolocation" =>
        LET g == input["geolocation"]
            out == transformed["geolocation"]
        IN /\ NRows(out) = NRows(g)
           /\ Cols(out) = Cols(g) \cup {"is_valid_coordinate"}
           /\ \A i \in Idx(g) :
                /\ \A c \in Cols(g) : out.rows[i][c] = g.rows[i][c]
                /\ out.rows[i]["is_valid_coordinate"] =
                       V(InBrazil(g.rows[i]["geolocation_lat"], g.rows[i]["geolocation_lng"]))

\* a point on the corner of the box is valid, next to a point inside
C20_Witness ==
    /\ pc = "validate_geolocation"
    /\ input["geolocation"].rows[1]["geolocation_lat"] = V(-33)
    /\ input["geolocation"].rows[1]["geolocation_lng"] = V(-32)
    /\ transformed["geolocation"].rows[1]["is_valid_coordinate"] = V(TRUE)
    /\ transformed["geolocation"].rows[2]["is_valid_coordinate"] = V(TRUE)

(***************************************************************************)
(* Payment aggregation                                                     *)
(***************************************************************************)
\* the first row, in row order, among the rows P of t whose column c holds v
FirstRow(t, P, c, v) == CHOOSE j \in P : t.rows[j][c] = v /\ \A k \in P : t.rows[k][c] = v => j <= k

\* C17: payment aggregation yields one row per order_id with
\* total_payment_value the sum of the order's payment_value, max_installments
\* the largest of its payment_installments, and payment_types its distinct
\* payment_type values, each once, joined in the order in which each is first
\* seen in the input rows.
C17_PaymentAggregation ==
    (Returned("fact_orders") /\ calls = 1) =>
        LET pay == input["order_payments"]
            fact == transformed["fact_orders"]
        IN \A o \in CellsOf(pay, "order_id") \cap CellsOf(input["orders"], "order_id") :
             LET P == RowsOfOrder(pay, o)
                 installments == {pay.rows[j]["payment_installments"] : j \in P} \ {NA}
                 types == {pay.rows[j]["payment_type"] : j \in P}
             IN /\ Cardinality(RowsOfOrder(fact, o)) = 1
                /\ \A i \in RowsOfOrder(fact, o) :
                     LET r == fact.rows[i]
                         parts == r["payment_types"][1]
                     IN /\ r["total_payment_value"] = V(SumIdx(pay, P, "payment_value"))
                        /\ IF installments = {} THEN IsNA(r["max_installments"])
                           ELSE /\ r["max_installments"] \in installments
                                /\ \A m \in installments : m[1] <= r["max_installments"][1]
                        /\ {V(parts[a]) : a \in 1..Len(parts)} = types
                        /\ Len(parts) = Cardinality(types)
                        /\ \A a, b \in 1..Len(parts) :
                             a < b => FirstRow(pay, P, "payment_type", V(parts[a]))
                                          < FirstRow(pay, P, "payment_type", V(parts[b]))

\* an order paid by card, then boleto, then card again
C17_Witness ==
    /\ Returned("fact_orders") /\ calls = 1
    /\ NRows(input["order_payments"]) = 3
    /\ \A j \in 1..3 : input["order_payments"].rows[j]["order_id"] = V("o1")
    /\ input["order_payments"].rows[1]["payment_type"] = V("card")
    /\ input["order_payments"].rows[2]["payment_type"] = V("boleto")
    /\ input["order_payments"].rows[3]["payment_type"] = V("card")
    /\ \E i \in Idx(transformed["fact_orders"]) :
         /\ transformed["fact_orders"].rows[i]["payment_types"] = V(<< "card", "boleto" >>)
         /\ transformed["fact_orders"].rows[i]["total_payment_value"] = V(6500)
         /\ transformed["fact_orders"].rows[i]["max_installments"] = V(3)

(***************************************************************************)
(* Order of the stages                                                     *)
(***************************************************************************)
StageSequence ==
    << "standardize", "missing", "dates", "enrich", "order_metrics", "delivery",
       "recurring", "geolocation", "fact", "update", "returned" >>

\* the mapping holds the orders with converted dates and delivery metrics,
\* the enriched products and the classified customers
EarlierStagesWritten ==
    /\ datasets["orders"].dtype["order_purchase_timestamp"] = "datetime"
    /\ datasets["orders"].dtype["order_delivered_customer_date"] = "datetime"
    /\ "delivery_time_days" \in Cols(datasets["orders"])
    /\ "product_category_name_english" \in Cols(datasets["products"])
    /\ "is_recurring_customer" \in Cols(datasets["customers"])

\* every fact row carries the converted purchase instant and the delivery
\* delay of its order and the identity of the order's customer, as the
\* mapping holds them
FactReadsMapping(fact) ==
    \A i \in Idx(fact) :
        /\ \E j \in Idx(datasets["orders"]) :
             /\ datasets["orders"].rows[j]["order_id"] = fact.rows[i]["order_id"]
             /\ datasets["orders"].rows[j]["order_purchase_timestamp"]
                    = fact.rows[i]["order_purchase_timestamp"]
             /\ datasets["orders"].rows[j]["delivery_delay_days"]
                    = fact.rows[i]["delivery_delay_days"]
        /\ \A k \in Idx(datasets["customers"]) :
             datasets["customers"].rows[k]["customer_id"] = fact.rows[i]["customer_id"]
                 => datasets["customers"].rows[k]["customer_unique_id"]
                        = fact.rows[i]["customer_unique_id"]

\* C18: within a run transform_all moves through its stages in the one fixed
\* order (normalize, missing values, dates, enrichment, order metrics,
\* delivery metrics, recurrence, geolocation, fact table), never back and
\* never twice, and the fact table is built from the mapping as the earlier
\* stages wrote it: date-converted orders, enriched products, classified
\* customers.
C18_StageOrder ==
    [][ /\ (pc' # pc /\ calls' = calls) =>
              \/ pc' = "raised"
              \/ \E k \in 1..(Len(StageSequence) - 1) :
                    pc = StageSequence[k] /\ pc' = StageSequence[k + 1]
        /\ (pc = "fact" /\ "fact_orders" \in DOMAIN transformed') =>
              /\ EarlierStagesWritten
              /\ FactReadsMapping(transformed'["fact_orders"]) ]_vars

\* the fact stage has just built the fact table of a first run
C18_Witness ==
    /\ pc = "update"
    /\ calls = 1
    /\ "fact_orders" \in DOMAIN transformed
    /\ "order_metrics" \in DOMAIN transformed
    /\ NRows(transformed["fact_orders"]) = 2
    /\ EarlierStagesWritten
    /\ "is_valid_coordinate" \in Cols(datasets["geolocation"])

\* C19: after transform_all returns, the mapping the caller passed in still
\* maps every name to the raw table it held before the call.
C19_InputReadOnly ==
    (pc = "returned" /\ calls = 1) =>
        /\ DOMAIN datasets = DOMAIN input
        /\ \A n \in DOMAIN input : datasets[n] = input[n]

(***************************************************************************)
(* Column names                                                            *)
(***************************************************************************)
\* lowercase snake_case of the column names the model uses
SnakeCase(c) ==
    CASE c = "Customer ID" -> "customer_id"
      [] c = "Order Date" -> "order_date"
      [] c = "Total Value" -> "total_value"
      [] c = " Seller_Rank " -> "seller_rank"
      [] OTHER -> c

\* C21: standardize_columns returns the table with every column name in
\* lowercase snake_case: blanks around it removed, letters lower-cased, inner
\* spaces turned into underscores ('Customer ID' becomes 'customer_id').
C21_SnakeCaseNames ==
    pc = "standardize_columns" =>
        \A n \in DOMAIN input :
            Cols(transformed[n]) = {SnakeCase(c) : c \in Cols(input[n])}

(***************************************************************************)
(* Order metrics of a table with three columns                             *)
(***************************************************************************)
\* C22: on an order-items table that has order_id, price and freight_value
\* and neither product_id nor order_item_id, calculate_order_metrics returns
\* without error one row per distinct order_id with the order's
\* order_total_value.
C22_ThreeColumnsSuffice ==
    (/\ pc \in {"calculate_order_metrics", "raised"}
     /\ "order_items" \in DOMAIN input
     /\ Cols(input["order_items"]) = {"order_id", "price", "freight_value"}) =>
        /\ pc = "calculate_order_metrics"
        /\ LET items == input["order_items"]
               out == transformed["order_metrics"]
           IN /\ CellsOf(out, "order_id") = CellsOf(items, "order_id")
              /\ NRows(out) = Cardinality(CellsOf(items, "order_id"))
              /\ \A i \in Idx(out) :
                   LET mine == RowsOfOrder(items, out.rows[i]["order_id"])
                   IN out.rows[i]["order_total_value"] =
                          V(SumIdx(items, mine, "price")
                                + SumIdx(items, mine, "freight_value"))

(***************************************************************************)
(* run_etl and extraction                                                  *)
(***************************************************************************)
\* C23: when extraction and transformation both return a non-empty mapping,
\* the result of run_etl has the key 'transformed' and its value is the
\* mapping transform_all returned.
C23_ResultHasTransformedKey ==
    (pc = "run_etl_returned" /\ datasets # <<>> /\ transformed # <<>>) =>
        /\ "transformed" \in DOMAIN first
        /\ first["transformed"] = transformed

\* the datasets whose file is there, has content, parses and has every
\* column of the schema
Readable(data_dir) ==
    {n \in Names : /\ data_dir.files[n].state = "csv"
                   /\ \A c \in DOMAIN SCHEMAS[n] : c \in Cols(data_dir.files[n].df)}

\* C26: extract_all never raises; a dataset is in the returned mapping exactly
\* when its file was found, was not empty and passed schema validation, and
\* the mapping is empty when the data directory does not exist; a returned table
\* has the columns and the number of rows of its file.
C26_ExtractedDatasets ==
    /\ pc \in {"run_etl", "extracted"} => err = ""
    /\ pc = "extracted" =>
          /\ DOMAIN datasets = IF input.exists THEN Readable(input) ELSE {}
          /\ \A n \in DOMAIN datasets :
                 /\ Cols(datasets[n]) = Cols(input.files[n].df)
                 /\ NRows(datasets[n]) = NRows(input.files[n].df)

\* a directory with eight good files and one file short of a column
C26_Witness ==
    /\ pc = "extracted"
    /\ input.exists
    /\ Cardinality(DOMAIN datasets) = 8
    /\ \E n \in Names : /\ input.files[n].state = "csv"
                        /\ n \notin DOMAIN datasets

\* C27: when extraction yields an empty mapping run_etl returns an empty
\* result without raising and never invokes transform_all; transform_all is
\* invoked at most once per run, only after extraction returned a non-empty
\* mapping, and exactly once by the time run_etl returns from such a run.
C27_TransformOnlyAfterExtraction ==
    /\ calls <= 1
    /\ pc \in {"run_etl", "extracted"} => calls = 0
    /\ (pc # "run_etl" /\ datasets = <<>>) =>
          /\ calls = 0
          /\ pc \in {"extracted", "run_etl_returned"}
          /\ pc = "run_etl_returned" => first = <<>>
    /\ calls = 1 => datasets # <<>>
    /\ (pc = "run_etl_returned" /\ datasets # <<>>) => calls = 1

\* run_etl has returned from a directory that exists but holds no good file
C27_Witness ==
    /\ pc = "run_etl_returned"
    /\ input.exists
    /\ datasets = <<>>
    /\ first = <<>>
    /\ calls = 0

(***************************************************************************)
(* Properties of the database loader (LoadSpec)                            *)
(***************************************************************************)
\* the datasets of the batch that have a staging table, by their position
StagedItems == {i \in 1..Len(input.datasets) : input.datasets[i].name \in StagingTables}

\* the last row of the batch with primary key k
LastWithKey(rows, k) ==
    rows[CHOOSE i \in 1..Len(rows) :
             rows[i].pk = k /\ \A j \in (i + 1)..Len(rows) : rows[j].pk # k]

\* C24: when a batch loaded to staging holds several rows with the same primary key,
\* the staging table keeps the last of them in batch order and ends with exactly one
\* row per primary key.
C24_LastWriteWins ==
    pc = "load_dim_time" =>
        \A n \in StagedItems :
            LET item == input.datasets[n]
                table == datasets.staging[item.name]
            IN  item.rows # <<>> =>
                    /\ \A r1, r2 \in table : r1.pk = r2.pk => r1 = r2
                    /\ \A i \in 1..Len(item.rows) :
                           \E r \in table :
                               /\ r.pk = item.rows[i].pk
                               /\ r.val = LastWithKey(item.rows, r.pk).val

\* the batch of a dataset is refused by the database: a failing server or a null key
Refused(item) ==
    /\ item.rows # <<>>
    /\ \/ input.fault = "load_to_staging"
       \/ \E i \in 1..Len(item.rows) : item.rows[i].pk = NA

\* table `after` holds the rows of the batch, tagged with the source, and nothing else
Replaced(after, rows) ==
    /\ {r.pk : r \in after} = {rows[i].pk : i \in 1..Len(rows)}
    /\ \A r \in after :
           /\ r.source = "csv"
           /\ \E i \in 1..Len(rows) : rows[i].pk = r.pk /\ rows[i].val = r.val

\* C29: load_to_staging replaces one staging table at a time, atomically: a turn of
\* its loop changes the table of its dataset only and leaves nothing uncommitted; the
\* table then holds the rows of the batch alone, committed while the later datasets
\* are still to come; if the dataset fails, its table keeps the content it had, the
\* error reaches the caller and no staging table changes any more in the call.
C29_AtomicPerTable ==
    [][/\ datasets'.staging # datasets.staging => pc = "load_to_staging"
       /\ pc \in {"except", "finally"} => pc' # "load_to_staging"
       /\ (pc = "load_to_staging" /\ first.i <= Len(input.datasets)) =>
              LET item == input.datasets[first.i]
                  staged == item.name \in StagingTables
              IN  /\ transformed' = datasets'
                  /\ \A t \in StagingTables \ {item.name} :
                         datasets'.staging[t] = datasets.staging[t]
                  /\ IF staged /\ Refused(item)
                     THEN /\ pc' = "except" /\ err' # ""
                          /\ datasets'.staging[item.name] = datasets.staging[item.name]
                     ELSE /\ pc' = pc /\ err' = ""
                          /\ first'.i = first.i + 1
                          /\ staged =>
                                 IF item.rows = <<>>
                                 THEN datasets'.staging[item.name] = datasets.staging[item.name]
                                 ELSE Replaced(datasets'.staging[item.name], item.rows)]_vars

\* a second load_all whose customers batch is refused: orders holds its new rows,
\* customers the rows of the first load
C29_Witness ==
    /\ pc = "except"
    /\ calls = 2
    /\ input.fault = "none"
    /\ first.i = 3
    /\ Refused(input.datasets[3])
    /\ input.datasets[1].rows # <<>>
    /\ Replaced(datasets.staging["orders"], input.datasets[1].rows)
    /\ datasets.staging["customers"] # {}

\* the last row of the fact table argument for order o
LastOfOrder(rows, o) ==
    rows[CHOOSE i \in 1..Len(rows) :
             rows[i].order_id = o /\ \A j \in (i + 1)..Len(rows) : rows[j].order_id # o]

\* C25: after load_fact_orders, analytics.fact_orders holds one row per order_id; the
\* row of an order of the loaded table carries the measures of that table, the rows of
\* the other orders are the ones it had; loading the same table again changes nothing,
\* whatever the server answers.  (A load that raises is not a load.)
C25_FactUpsert ==
    [][(/\ pc = "load_fact_orders"
        /\ "fact_orders" \in DOMAIN input.transformed
        /\ pc' # "except") =>
          LET rows == input.transformed["fact_orders"]
              ids == {rows[i].order_id : i \in 1..Len(rows)}
              fact == datasets'.fact
          IN  /\ \A x, y \in fact : x.order_id = y.order_id => x = y
              /\ \A o \in ids :
                     \E x \in fact :
                         /\ x.order_id = o
                         /\ x.order_total_value = LastOfOrder(rows, o).order_total_value
              /\ {x \in fact : x.order_id \notin ids} = {x \in datasets.fact : x.order_id \notin ids}
              /\ \A again \in load_fact_orders(datasets', rows, input.missing) :
                     again.ok /\ again.df.fact = fact]_vars

\* the column of the fact table that holds the surrogate key of a dimension
KeyColumn ==
    [time |-> "time_id", customers |-> "customer_key", products |-> "product_key",
     sellers |-> "seller_key", geography |-> "geography_key"]

\* dimension row k of dimension d is a row for fact row r
IsRowOf(d, k, r) ==
    CASE d = "time" -> k = r.order_date
      [] d = "customers" -> k = r.customer_id
      [] d = "products" -> k = r.main_product_id
      [] d = "sellers" -> k = r.main_seller_id
      [] d = "geography" -> /\ r.customer_state # NA /\ k.state = r.customer_state[1]
                            /\ r.customer_city # NA /\ k.city = r.customer_city[1]

\* C28: the fact table is written only by the load_fact_orders step of load_analytics,
\* when every dimension the mapping has data for holds that data; every row of the
\* loaded fact table is written; its surrogate key is null where the dimension has no
\* row for it, and a key that is not null is the key of a row for it.
C28_DimensionsBeforeFacts ==
    [][/\ datasets'.fact # datasets.fact =>
              /\ pc = "load_fact_orders"
              /\ \A d \in DimNames :
                     LET keys == dim_values(d, input.transformed)
                     IN  \A i \in 1..Len(keys) :
                             \E j \in 1..Len(datasets.dims[d]) : datasets.dims[d][j] = keys[i]
       /\ (/\ pc = "load_fact_orders"
           /\ "fact_orders" \in DOMAIN input.transformed
           /\ input.fault # pc) =>
              LET rows == input.transformed["fact_orders"]
              IN  \A i \in 1..Len(rows) :
                      \E x \in datasets'.fact :
                          /\ x.order_id = rows[i].order_id
                          /\ \A d \in DimNames :
                                 LET dim == datasets.dims[d]
                                     r == LastOfOrder(rows, x.order_id)
                                     key == x[KeyColumn[d]]
                                 IN  /\ (\A j \in 1..Len(dim) : ~ IsRowOf(d, dim[j], r))
                                            => key = NA
                                     /\ key # NA => /\ key[1] \in 1..Len(dim)
                                                    /\ IsRowOf(d, dim[key[1]], r)]_vars

\* the order of the steps of load_all
LoadAllOrder ==
    << "connect", "create_schemas", "create_staging_tables", "create_star_schema_tables",
       "load_to_staging", "load_analytics" >>

\* the step of load_all that position p belongs to
StepOf(p) ==
    IF p \in {"load_fact_orders"} \cup {"load_dim_" \o d : d \in DimNames}
    THEN "load_analytics"
    ELSE p

IsStep(p) == \E i \in 1..Len(LoadAllOrder) : LoadAllOrder[i] = StepOf(p)

\* C30: load_all runs connect, create schemas, create staging tables, create star-schema
\* tables, load staging, load analytics in this order; a failing step goes to the error
\* path; load_all raises exactly when a step failed, and on every way out the
\* connection, if one was opened, has been closed exactly once.
C30_StepOrderAndClose ==
    [][pc' # pc =>
          \/ /\ \E i \in 1..(Len(LoadAllOrder) - 1) :
                    StepOf(pc) = LoadAllOrder[i] /\ StepOf(pc') = LoadAllOrder[i + 1]
             /\ err' = ""
             /\ first'.conn = "open" /\ first'.closes = 0
          \/ /\ StepOf(pc) = "load_analytics" /\ StepOf(pc') = "load_analytics"
             /\ err' = ""
          \/ /\ IsStep(pc) /\ pc' = "except"
             /\ err' # ""
             /\ first'.closes = 0
             /\ first'.conn = (IF pc = "connect" THEN "none" ELSE "open")
          \/ pc = "except" /\ pc' = "finally" /\ err' = err /\ first' = first
          \/ StepOf(pc) = "load_analytics" /\ pc' = "finally" /\ err' = ""
          \/ /\ pc = "finally" /\ pc' \in {"returned", "raised"}
             /\ pc' = "raised" <=> err # ""
             /\ err' = err
             /\ first'.conn # "open"
             /\ first'.closes = (IF first.conn = "open" THEN 1 ELSE 0)
          \/ pc \in {"returned", "raised"} /\ pc' = "connect"]_vars

\* load_all raised because create_staging_tables failed, and the connection is closed
C30_Witness ==
    /\ pc = "raised"
    /\ input.fault = "create_staging_tables"
    /\ err # ""
    /\ first.conn = "closed"
    /\ first.closes = 1

====
